---------------------------- MODULE Spec2Model ----------------------------
(***************************************************************************)
(* A model of the grocery list application (src/app.py): the static        *)
(* catalogs, the session state its event handlers mutate, the persisted    *)
(* JSON documents, and the handlers themselves.                            *)
(*                                                                         *)
(* Python dictionaries whose iteration order the program observes are      *)
(* sequences of records (MASTER_LIST, custom_items); the others are        *)
(* functions on their key set.  None is the string NONE; a key missing     *)
(* from an imported preference record is the string NOKEY.  The two        *)
(* catalog item names that are not ASCII in the source are written with    *)
(* a plain n ("Jalapenos").                                                *)
(***************************************************************************)
EXTENDS Integers, Sequences, FiniteSets, TLC

(* BRAND_GROUPS: group key -> items sharing custom brands, in declared order. *)
BRAND_GROUPS ==
  << [group |-> "cheese",
      items |-> <<"Cheddar Cheese", "Swiss Cheese", "Mozzarella Cheese", "Parmesan Cheese", "Provolone Cheese", "American Cheese", "Pepper Jack Cheese", "Feta Cheese", "Blue Cheese", "Goat Cheese", "Ricotta Cheese", "Brie", "Shredded Mexican Blend", "Cottage Cheese">>],
     [group |-> "milk",
      items |-> <<"Whole Milk", "2% Milk", "Skim Milk">>],
     [group |-> "cream",
      items |-> <<"Half & Half", "Heavy Cream">>],
     [group |-> "butter",
      items |-> <<"Butter (Salted)", "Butter (Unsalted)">>],
     [group |-> "yogurt",
      items |-> <<"Yogurt (Plain)", "Yogurt (Greek)">>],
     [group |-> "milk_alt",
      items |-> <<"Almond Milk", "Oat Milk">>],
     [group |-> "canned_tomatoes",
      items |-> <<"Diced Tomatoes", "Crushed Tomatoes", "Tomato Paste", "Tomato Sauce">>],
     [group |-> "canned_beans",
      items |-> <<"Black Beans", "Kidney Beans", "Pinto Beans">>],
     [group |-> "broth",
      items |-> <<"Chicken Broth", "Beef Broth", "Vegetable Broth">>],
     [group |-> "coffee",
      items |-> <<"Coffee (Ground)", "Coffee (Whole Bean)">>],
     [group |-> "nut_butter",
      items |-> <<"Peanut Butter", "Almond Butter">>] >>

(* MASTER_LIST: category -> (item -> default unit), categories and items in
   declared order. *)
MASTER_LIST ==
  << [category |-> "Produce - Fruits",
      items |-> <<
        [item |-> "Apples", unit |-> "lb"],
        [item |-> "Avocados", unit |-> "each"],
        [item |-> "Bananas", unit |-> "bunch"],
        [item |-> "Blackberries", unit |-> "pint"],
        [item |-> "Blueberries", unit |-> "pint"],
        [item |-> "Cantaloupe", unit |-> "each"],
        [item |-> "Cherries", unit |-> "lb"],
        [item |-> "Grapefruit", unit |-> "each"],
        [item |-> "Grapes", unit |-> "lb"],
        [item |-> "Honeydew", unit |-> "each"],
        [item |-> "Kiwi", unit |-> "each"],
        [item |-> "Lemons", unit |-> "each"],
        [item |-> "Limes", unit |-> "each"],
        [item |-> "Mango", unit |-> "each"],
        [item |-> "Oranges", unit |-> "lb"],
        [item |-> "Peaches", unit |-> "lb"],
        [item |-> "Pears", unit |-> "lb"],
        [item |-> "Pineapple", unit |-> "each"],
        [item |-> "Plums", unit |-> "lb"],
        [item |-> "Raspberries", unit |-> "pint"],
        [item |-> "Strawberries", unit |-> "lb"],
        [item |-> "Watermelon", unit |-> "each"] >>],
     [category |-> "Produce - Vegetables",
      items |-> <<
        [item |-> "Acorn Squash", unit |-> "each"],
        [item |-> "Arugula", unit |-> "bag"],
        [item |-> "Asparagus", unit |-> "bunch"],
        [item |-> "Beets", unit |-> "lb"],
        [item |-> "Bell Peppers (Green)", unit |-> "each"],
        [item |-> "Bell Peppers (Red)", unit |-> "each"],
        [item |-> "Bell Peppers (Yellow)", unit |-> "each"],
        [item |-> "Broccoli", unit |-> "lb"],
        [item |-> "Brussels Sprouts", unit |-> "lb"],
        [item |-> "Butternut Squash", unit |-> "each"],
        [item |-> "Cabbage (Green)", unit |-> "head"],
        [item |-> "Cabbage (Red)", unit |-> "head"],
        [item |-> "Carrots", unit |-> "lb"],
        [item |-> "Cauliflower", unit |-> "head"],
        [item |-> "Celery", unit |-> "bunch"],
        [item |-> "Cherry Tomatoes", unit |-> "pint"],
        [item |-> "Corn on the Cob", unit |-> "each"],
        [item |-> "Cucumbers", unit |-> "each"],
        [item |-> "Eggplant", unit |-> "each"],
        [item |-> "Garlic", unit |-> "head"],
        [item |-> "Grape Tomatoes", unit |-> "pint"],
        [item |-> "Green Beans", unit |-> "lb"],
        [item |-> "Jalapenos", unit |-> "each"],
        [item |-> "Kale", unit |-> "bunch"],
        [item |-> "Lettuce (Iceberg)", unit |-> "head"],
        [item |-> "Lettuce (Romaine)", unit |-> "head"],
        [item |-> "Mixed Greens", unit |-> "bag"],
        [item |-> "Mushrooms (Cremini)", unit |-> "oz"],
        [item |-> "Mushrooms (Portobello)", unit |-> "each"],
        [item |-> "Mushrooms (White)", unit |-> "oz"],
        [item |-> "Onions (Red)", unit |-> "each"],
        [item |-> "Onions (White)", unit |-> "each"],
        [item |-> "Onions (Yellow)", unit |-> "each"],
        [item |-> "Parsnips", unit |-> "lb"],
        [item |-> "Potatoes (Red)", unit |-> "lb"],
        [item |-> "Potatoes (Russet)", unit |-> "lb"],
        [item |-> "Potatoes (Yukon Gold)", unit |-> "lb"],
        [item |-> "Radishes", unit |-> "bunch"],
        [item |-> "Serrano Peppers", unit |-> "each"],
        [item |-> "Snap Peas", unit |-> "lb"],
        [item |-> "Spaghetti Squash", unit |-> "each"],
        [item |-> "Spinach", unit |-> "bag"],
        [item |-> "Sweet Potatoes", unit |-> "lb"],
        [item |-> "Tomatoes", unit |-> "lb"],
        [item |-> "Turnips", unit |-> "lb"],
        [item |-> "Yellow Squash", unit |-> "each"],
        [item |-> "Zucchini", unit |-> "each"] >>],
     [category |-> "Produce - Herbs",
      items |-> <<
        [item |-> "Basil (Fresh)", unit |-> "bunch"],
        [item |-> "Chives", unit |-> "bunch"],
        [item |-> "Cilantro", unit |-> "bunch"],
        [item |-> "Dill", unit |-> "bunch"],
        [item |-> "Ginger Root", unit |-> "each"],
        [item |-> "Green Onions/Scallions", unit |-> "bunch"],
        [item |-> "Mint", unit |-> "bunch"],
        [item |-> "Parsley (Curly)", unit |-> "bunch"],
        [item |-> "Parsley (Flat)", unit |-> "bunch"],
        [item |-> "Rosemary", unit |-> "bunch"],
        [item |-> "Sage", unit |-> "bunch"],
        [item |-> "Thyme", unit |-> "bunch"] >>],
     [category |-> "Dairy",
      items |-> <<
        [item |-> "2% Milk", unit |-> "half gal"],
        [item |-> "American Cheese", unit |-> "lb"],
        [item |-> "Blue Cheese", unit |-> "oz"],
        [item |-> "Brie", unit |-> "each"],
        [item |-> "Butter (Salted)", unit |-> "lb"],
        [item |-> "Butter (Unsalted)", unit |-> "lb"],
        [item |-> "Cheddar Cheese", unit |-> "lb"],
        [item |-> "Cottage Cheese", unit |-> "oz"],
        [item |-> "Cream Cheese", unit |-> "oz"],
        [item |-> "Eggs (Large)", unit |-> "dozen"],
        [item |-> "Feta Cheese", unit |-> "oz"],
        [item |-> "Goat Cheese", unit |-> "oz"],
        [item |-> "Half & Half", unit |-> "pint"],
        [item |-> "Heavy Cream", unit |-> "pint"],
        [item |-> "Mozzarella Cheese", unit |-> "lb"],
        [item |-> "Parmesan Cheese", unit |-> "lb"],
        [item |-> "Pepper Jack Cheese", unit |-> "lb"],
        [item |-> "Provolone Cheese", unit |-> "lb"],
        [item |-> "Ricotta Cheese", unit |-> "oz"],
        [item |-> "Shredded Mexican Blend", unit |-> "bag"],
        [item |-> "Skim Milk", unit |-> "half gal"],
        [item |-> "Sour Cream", unit |-> "oz"],
        [item |-> "Swiss Cheese", unit |-> "lb"],
        [item |-> "Whole Milk", unit |-> "half gal"],
        [item |-> "Yogurt (Greek)", unit |-> "oz"],
        [item |-> "Yogurt (Plain)", unit |-> "oz"] >>],
     [category |-> "Dairy Alternatives",
      items |-> <<
        [item |-> "Almond Milk", unit |-> "carton"],
        [item |-> "Coconut Milk (Carton)", unit |-> "carton"],
        [item |-> "Oat Milk", unit |-> "carton"],
        [item |-> "Soy Milk", unit |-> "carton"],
        [item |-> "Vegan Butter", unit |-> "each"],
        [item |-> "Vegan Cheese", unit |-> "each"] >>],
     [category |-> "Meat - Beef",
      items |-> <<
        [item |-> "Brisket", unit |-> "lb"],
        [item |-> "Chuck Roast", unit |-> "lb"],
        [item |-> "Filet Mignon", unit |-> "lb"],
        [item |-> "Flank Steak", unit |-> "lb"],
        [item |-> "Ground Beef (80/20)", unit |-> "lb"],
        [item |-> "Ground Beef (90/10)", unit |-> "lb"],
        [item |-> "NY Strip Steak", unit |-> "lb"],
        [item |-> "Pastrami Slices", unit |-> "lb"],
        [item |-> "Ribeye Steak", unit |-> "lb"],
        [item |-> "Short Ribs", unit |-> "lb"],
        [item |-> "Sirloin Steak", unit |-> "lb"],
        [item |-> "Skirt Steak", unit |-> "lb"],
        [item |-> "Stew Meat", unit |-> "lb"] >>],
     [category |-> "Meat - Pork",
      items |-> <<
        [item |-> "Baby Back Ribs", unit |-> "lb"],
        [item |-> "Bacon", unit |-> "pack"],
        [item |-> "Bratwurst", unit |-> "pack"],
        [item |-> "Breakfast Sausage", unit |-> "pack"],
        [item |-> "Ground Pork", unit |-> "lb"],
        [item |-> "Ham (Sliced)", unit |-> "lb"],
        [item |-> "Ham (Whole)", unit |-> "lb"],
        [item |-> "Hot Dogs", unit |-> "pack"],
        [item |-> "Italian Sausage", unit |-> "lb"],
        [item |-> "Pepperoni", unit |-> "pack"],
        [item |-> "Pork Chops (Bone-In)", unit |-> "lb"],
        [item |-> "Pork Chops (Boneless)", unit |-> "lb"],
        [item |-> "Pork Loin Roast", unit |-> "lb"],
        [item |-> "Pork Shoulder", unit |-> "lb"],
        [item |-> "Pork Tenderloin", unit |-> "lb"],
        [item |-> "Prosciutto", unit |-> "oz"],
        [item |-> "Salami", unit |-> "oz"],
        [item |-> "Spare Ribs", unit |-> "lb"] >>],
     [category |-> "Meat - Poultry",
      items |-> <<
        [item |-> "Chicken Breast (Bone-In)", unit |-> "lb"],
        [item |-> "Chicken Breast (Boneless)", unit |-> "lb"],
        [item |-> "Chicken Drumsticks", unit |-> "lb"],
        [item |-> "Chicken Thighs (Bone-In)", unit |-> "lb"],
        [item |-> "Chicken Thighs (Boneless)", unit |-> "lb"],
        [item |-> "Chicken Wings", unit |-> "lb"],
        [item |-> "Ground Chicken", unit |-> "lb"],
        [item |-> "Ground Turkey", unit |-> "lb"],
        [item |-> "Rotisserie Chicken", unit |-> "each"],
        [item |-> "Turkey (Deli Sliced)", unit |-> "lb"],
        [item |-> "Turkey Breast", unit |-> "lb"],
        [item |-> "Whole Chicken", unit |-> "each"] >>],
     [category |-> "Seafood",
      items |-> <<
        [item |-> "Crab Meat", unit |-> "lb"],
        [item |-> "Salmon Fillet", unit |-> "lb"],
        [item |-> "Sea Bass", unit |-> "lb"],
        [item |-> "Shrimp (Cooked)", unit |-> "lb"],
        [item |-> "Shrimp (Raw)", unit |-> "lb"] >>],
     [category |-> "Canned Goods",
      items |-> <<
        [item |-> "Artichoke Hearts", unit |-> "can"],
        [item |-> "Baked Beans", unit |-> "can"],
        [item |-> "Beef Broth", unit |-> "carton"],
        [item |-> "Black Beans", unit |-> "can"],
        [item |-> "Chicken Broth", unit |-> "carton"],
        [item |-> "Chipotle in Adobo", unit |-> "can"],
        [item |-> "Coconut Milk (Canned)", unit |-> "can"],
        [item |-> "Corn (Canned)", unit |-> "can"],
        [item |-> "Crushed Tomatoes", unit |-> "can"],
        [item |-> "Diced Tomatoes", unit |-> "can"],
        [item |-> "Evaporated Milk", unit |-> "can"],
        [item |-> "Green Beans (Canned)", unit |-> "can"],
        [item |-> "Green Chiles", unit |-> "can"],
        [item |-> "Jalapenos (Pickled)", unit |-> "jar"],
        [item |-> "Kidney Beans", unit |-> "can"],
        [item |-> "Mixed Vegetables", unit |-> "can"],
        [item |-> "Olives (Black)", unit |-> "can"],
        [item |-> "Olives (Green)", unit |-> "jar"],
        [item |-> "Peas (Canned)", unit |-> "can"],
        [item |-> "Pinto Beans", unit |-> "can"],
        [item |-> "Pumpkin Puree", unit |-> "can"],
        [item |-> "Refried Beans", unit |-> "can"],
        [item |-> "Roasted Red Peppers", unit |-> "jar"],
        [item |-> "Sweetened Condensed Milk", unit |-> "can"],
        [item |-> "Tomato Paste", unit |-> "can"],
        [item |-> "Tomato Sauce", unit |-> "can"],
        [item |-> "Tuna (Canned)", unit |-> "can"],
        [item |-> "Vegetable Broth", unit |-> "carton"] >>],
     [category |-> "Grains & Pasta",
      items |-> <<
        [item |-> "Angel Hair", unit |-> "box"],
        [item |-> "Arborio Rice", unit |-> "lb"],
        [item |-> "Barley", unit |-> "lb"],
        [item |-> "Basmati Rice", unit |-> "lb"],
        [item |-> "Brown Rice", unit |-> "lb"],
        [item |-> "Bulgur", unit |-> "lb"],
        [item |-> "Couscous", unit |-> "box"],
        [item |-> "Egg Noodles", unit |-> "bag"],
        [item |-> "Farfalle (Bow Tie)", unit |-> "box"],
        [item |-> "Farro", unit |-> "lb"],
        [item |-> "Fettuccine", unit |-> "box"],
        [item |-> "Fusilli", unit |-> "box"],
        [item |-> "Jasmine Rice", unit |-> "lb"],
        [item |-> "Lasagna Noodles", unit |-> "box"],
        [item |-> "Linguine", unit |-> "box"],
        [item |-> "Macaroni", unit |-> "box"],
        [item |-> "Oats (Instant)", unit |-> "box"],
        [item |-> "Oats (Rolled)", unit |-> "container"],
        [item |-> "Oats (Steel Cut)", unit |-> "container"],
        [item |-> "Orzo", unit |-> "box"],
        [item |-> "Penne", unit |-> "box"],
        [item |-> "Quinoa", unit |-> "lb"],
        [item |-> "Ramen Noodles", unit |-> "pack"],
        [item |-> "Ravioli", unit |-> "pack"],
        [item |-> "Rice Noodles", unit |-> "pack"],
        [item |-> "Rigatoni", unit |-> "box"],
        [item |-> "Soba Noodles", unit |-> "pack"],
        [item |-> "Spaghetti", unit |-> "box"],
        [item |-> "Tortellini", unit |-> "pack"],
        [item |-> "Udon Noodles", unit |-> "pack"],
        [item |-> "White Rice (Long Grain)", unit |-> "lb"],
        [item |-> "Wild Rice", unit |-> "lb"] >>],
     [category |-> "Bread & Bakery",
      items |-> <<
        [item |-> "Bagels", unit |-> "pack"],
        [item |-> "Breadcrumbs", unit |-> "container"],
        [item |-> "Ciabatta", unit |-> "each"],
        [item |-> "Corn Tortillas", unit |-> "pack"],
        [item |-> "Croissants", unit |-> "pack"],
        [item |-> "Croutons", unit |-> "bag"],
        [item |-> "English Muffins", unit |-> "pack"],
        [item |-> "Flour Tortillas", unit |-> "pack"],
        [item |-> "French Bread", unit |-> "loaf"],
        [item |-> "Hamburger Buns", unit |-> "pack"],
        [item |-> "Hot Dog Buns", unit |-> "pack"],
        [item |-> "Italian Bread", unit |-> "loaf"],
        [item |-> "Multigrain Bread", unit |-> "loaf"],
        [item |-> "Naan", unit |-> "pack"],
        [item |-> "Panko Breadcrumbs", unit |-> "container"],
        [item |-> "Pita Bread", unit |-> "pack"],
        [item |-> "Rye Bread", unit |-> "loaf"],
        [item |-> "Sourdough Bread", unit |-> "loaf"],
        [item |-> "Wheat Bread", unit |-> "loaf"],
        [item |-> "White Bread", unit |-> "loaf"] >>],
     [category |-> "Baking",
      items |-> <<
        [item |-> "Active Dry Yeast", unit |-> "pack"],
        [item |-> "Agave Nectar", unit |-> "bottle"],
        [item |-> "All-Purpose Flour", unit |-> "lb"],
        [item |-> "Almond Extract", unit |-> "bottle"],
        [item |-> "Almond Flour", unit |-> "lb"],
        [item |-> "Baking Chocolate", unit |-> "bar"],
        [item |-> "Baking Powder", unit |-> "can"],
        [item |-> "Baking Soda", unit |-> "box"],
        [item |-> "Bread Flour", unit |-> "lb"],
        [item |-> "Brown Sugar", unit |-> "lb"],
        [item |-> "Cake Flour", unit |-> "lb"],
        [item |-> "Chocolate Chips", unit |-> "bag"],
        [item |-> "Cocoa Powder", unit |-> "container"],
        [item |-> "Coconut Flour", unit |-> "lb"],
        [item |-> "Corn Syrup", unit |-> "bottle"],
        [item |-> "Cornmeal", unit |-> "lb"],
        [item |-> "Cornstarch", unit |-> "box"],
        [item |-> "Cream of Tartar", unit |-> "container"],
        [item |-> "Granulated Sugar", unit |-> "lb"],
        [item |-> "Honey", unit |-> "bottle"],
        [item |-> "Instant Yeast", unit |-> "pack"],
        [item |-> "Maple Syrup", unit |-> "bottle"],
        [item |-> "Molasses", unit |-> "bottle"],
        [item |-> "Powdered Sugar", unit |-> "lb"],
        [item |-> "Shortening", unit |-> "can"],
        [item |-> "Vanilla Extract", unit |-> "bottle"],
        [item |-> "Whole Wheat Flour", unit |-> "lb"] >>],
     [category |-> "Oils & Vinegars",
      items |-> <<
        [item |-> "Apple Cider Vinegar", unit |-> "bottle"],
        [item |-> "Avocado Oil", unit |-> "bottle"],
        [item |-> "Balsamic Vinegar", unit |-> "bottle"],
        [item |-> "Canola Oil", unit |-> "bottle"],
        [item |-> "Coconut Oil", unit |-> "jar"],
        [item |-> "Cooking Spray", unit |-> "can"],
        [item |-> "Olive Oil (Extra Virgin)", unit |-> "bottle"],
        [item |-> "Olive Oil (Light)", unit |-> "bottle"],
        [item |-> "Peanut Oil", unit |-> "bottle"],
        [item |-> "Red Wine Vinegar", unit |-> "bottle"],
        [item |-> "Rice Vinegar", unit |-> "bottle"],
        [item |-> "Sesame Oil", unit |-> "bottle"],
        [item |-> "Vegetable Oil", unit |-> "bottle"],
        [item |-> "White Vinegar", unit |-> "bottle"] >>],
     [category |-> "Spices & Seasonings",
      items |-> <<
        [item |-> "Allspice", unit |-> "container"],
        [item |-> "Basil (Dried)", unit |-> "container"],
        [item |-> "Bay Leaves", unit |-> "container"],
        [item |-> "Black Pepper", unit |-> "container"],
        [item |-> "Caraway Seeds", unit |-> "container"],
        [item |-> "Cardamom", unit |-> "container"],
        [item |-> "Cayenne Pepper", unit |-> "container"],
        [item |-> "Celery Salt", unit |-> "container"],
        [item |-> "Celery Seed", unit |-> "container"],
        [item |-> "Chili Powder", unit |-> "container"],
        [item |-> "Cinnamon (Ground)", unit |-> "container"],
        [item |-> "Cinnamon Sticks", unit |-> "container"],
        [item |-> "Cloves", unit |-> "container"],
        [item |-> "Coriander", unit |-> "container"],
        [item |-> "Cumin", unit |-> "container"],
        [item |-> "Curry Powder", unit |-> "container"],
        [item |-> "Dill (Dried)", unit |-> "container"],
        [item |-> "Fennel Seeds", unit |-> "container"],
        [item |-> "Garam Masala", unit |-> "container"],
        [item |-> "Garlic Powder", unit |-> "container"],
        [item |-> "Ginger (Ground)", unit |-> "container"],
        [item |-> "Herbs de Provence", unit |-> "container"],
        [item |-> "Italian Seasoning", unit |-> "container"],
        [item |-> "Mustard (Dry)", unit |-> "container"],
        [item |-> "Mustard Seeds", unit |-> "container"],
        [item |-> "Nutmeg", unit |-> "container"],
        [item |-> "Onion Powder", unit |-> "container"],
        [item |-> "Oregano (Dried)", unit |-> "container"],
        [item |-> "Paprika", unit |-> "container"],
        [item |-> "Poppy Seeds", unit |-> "container"],
        [item |-> "Ranch Seasoning", unit |-> "pack"],
        [item |-> "Red Pepper Flakes", unit |-> "container"],
        [item |-> "Rosemary (Dried)", unit |-> "container"],
        [item |-> "Saffron", unit |-> "container"],
        [item |-> "Salt (Kosher)", unit |-> "box"],
        [item |-> "Salt (Sea)", unit |-> "container"],
        [item |-> "Salt (Table)", unit |-> "container"],
        [item |-> "Sesame Seeds", unit |-> "container"],
        [item |-> "Smoked Paprika", unit |-> "container"],
        [item |-> "Taco Seasoning", unit |-> "pack"],
        [item |-> "Thyme (Dried)", unit |-> "container"],
        [item |-> "Turmeric", unit |-> "container"],
        [item |-> "White Pepper", unit |-> "container"] >>],
     [category |-> "Condiments",
      items |-> <<
        [item |-> "Alfredo Sauce", unit |-> "jar"],
        [item |-> "BBQ Sauce", unit |-> "bottle"],
        [item |-> "Blue Cheese Dressing", unit |-> "bottle"],
        [item |-> "Caesar Dressing", unit |-> "bottle"],
        [item |-> "Capers", unit |-> "jar"],
        [item |-> "Fish Sauce", unit |-> "bottle"],
        [item |-> "Guacamole", unit |-> "container"],
        [item |-> "Hoisin Sauce", unit |-> "bottle"],
        [item |-> "Hot Sauce", unit |-> "bottle"],
        [item |-> "Hummus", unit |-> "container"],
        [item |-> "Italian Dressing", unit |-> "bottle"],
        [item |-> "Ketchup", unit |-> "bottle"],
        [item |-> "Kimchi", unit |-> "jar"],
        [item |-> "Marinara Sauce", unit |-> "jar"],
        [item |-> "Mayonnaise", unit |-> "jar"],
        [item |-> "Mustard (Dijon)", unit |-> "jar"],
        [item |-> "Mustard (Spicy Brown)", unit |-> "bottle"],
        [item |-> "Mustard (Yellow)", unit |-> "bottle"],
        [item |-> "Oyster Sauce", unit |-> "bottle"],
        [item |-> "Pesto", unit |-> "jar"],
        [item |-> "Pickles (Bread & Butter)", unit |-> "jar"],
        [item |-> "Pickles (Dill)", unit |-> "jar"],
        [item |-> "Pico de Gallo", unit |-> "container"],
        [item |-> "Ranch Dressing", unit |-> "bottle"],
        [item |-> "Relish", unit |-> "jar"],
        [item |-> "Salsa", unit |-> "jar"],
        [item |-> "Sauerkraut", unit |-> "jar"],
        [item |-> "Soy Sauce", unit |-> "bottle"],
        [item |-> "Sriracha", unit |-> "bottle"],
        [item |-> "Sun-Dried Tomatoes", unit |-> "jar"],
        [item |-> "Tahini", unit |-> "jar"],
        [item |-> "Teriyaki Sauce", unit |-> "bottle"],
        [item |-> "Thousand Island", unit |-> "bottle"],
        [item |-> "Vinaigrette", unit |-> "bottle"],
        [item |-> "Worcestershire Sauce", unit |-> "bottle"] >>],
     [category |-> "Nuts & Seeds",
      items |-> <<
        [item |-> "Almond Butter", unit |-> "jar"],
        [item |-> "Almonds", unit |-> "bag"],
        [item |-> "Brazil Nuts", unit |-> "bag"],
        [item |-> "Cashews", unit |-> "bag"],
        [item |-> "Chia Seeds", unit |-> "bag"],
        [item |-> "Flax Seeds", unit |-> "bag"],
        [item |-> "Hazelnuts", unit |-> "bag"],
        [item |-> "Hemp Seeds", unit |-> "bag"],
        [item |-> "Macadamia Nuts", unit |-> "bag"],
        [item |-> "Peanut Butter", unit |-> "jar"],
        [item |-> "Peanuts", unit |-> "bag"],
        [item |-> "Pecans", unit |-> "bag"],
        [item |-> "Pine Nuts", unit |-> "bag"],
        [item |-> "Pistachios", unit |-> "bag"],
        [item |-> "Pumpkin Seeds", unit |-> "bag"],
        [item |-> "Sunflower Seeds", unit |-> "bag"],
        [item |-> "Walnuts", unit |-> "bag"] >>],
     [category |-> "Dried Fruits",
      items |-> <<
        [item |-> "Dates", unit |-> "container"],
        [item |-> "Dried Apricots", unit |-> "bag"],
        [item |-> "Dried Cranberries", unit |-> "bag"],
        [item |-> "Dried Figs", unit |-> "bag"],
        [item |-> "Dried Mango", unit |-> "bag"],
        [item |-> "Dried Pineapple", unit |-> "bag"],
        [item |-> "Prunes", unit |-> "bag"],
        [item |-> "Raisins", unit |-> "box"],
        [item |-> "Trail Mix", unit |-> "bag"] >>],
     [category |-> "Frozen - Vegetables",
      items |-> <<
        [item |-> "Frozen Broccoli", unit |-> "bag"],
        [item |-> "Frozen Cauliflower Rice", unit |-> "bag"],
        [item |-> "Frozen Corn", unit |-> "bag"],
        [item |-> "Frozen Edamame", unit |-> "bag"],
        [item |-> "Frozen Green Beans", unit |-> "bag"],
        [item |-> "Frozen Mixed Vegetables", unit |-> "bag"],
        [item |-> "Frozen Peas", unit |-> "bag"],
        [item |-> "Frozen Spinach", unit |-> "bag"],
        [item |-> "Frozen Stir Fry Mix", unit |-> "bag"] >>],
     [category |-> "Frozen - Fruits",
      items |-> <<
        [item |-> "Frozen Bananas", unit |-> "bag"],
        [item |-> "Frozen Blueberries", unit |-> "bag"],
        [item |-> "Frozen Mango", unit |-> "bag"],
        [item |-> "Frozen Mixed Berries", unit |-> "bag"],
        [item |-> "Frozen Peaches", unit |-> "bag"],
        [item |-> "Frozen Pineapple", unit |-> "bag"],
        [item |-> "Frozen Raspberries", unit |-> "bag"],
        [item |-> "Frozen Strawberries", unit |-> "bag"] >>],
     [category |-> "Frozen - Meats",
      items |-> <<
        [item |-> "Frozen Burgers", unit |-> "box"],
        [item |-> "Frozen Chicken Breasts", unit |-> "bag"],
        [item |-> "Frozen Chicken Wings", unit |-> "bag"],
        [item |-> "Frozen Ground Beef", unit |-> "lb"],
        [item |-> "Frozen Meatballs", unit |-> "bag"] >>],
     [category |-> "Frozen - Seafood",
      items |-> <<
        [item |-> "Frozen Fish Sticks", unit |-> "box"],
        [item |-> "Frozen Salmon", unit |-> "lb"],
        [item |-> "Frozen Shrimp", unit |-> "bag"],
        [item |-> "Frozen Tilapia", unit |-> "bag"] >>],
     [category |-> "Frozen - Prepared",
      items |-> <<
        [item |-> "Frozen Burritos", unit |-> "pack"],
        [item |-> "Frozen Dinner Entrees", unit |-> "each"],
        [item |-> "Frozen French Fries", unit |-> "bag"],
        [item |-> "Frozen Hash Browns", unit |-> "bag"],
        [item |-> "Frozen Pancakes", unit |-> "box"],
        [item |-> "Frozen Pizza", unit |-> "each"],
        [item |-> "Frozen Pot Pies", unit |-> "each"],
        [item |-> "Frozen Tater Tots", unit |-> "bag"],
        [item |-> "Frozen Waffles", unit |-> "box"] >>],
     [category |-> "Frozen - Desserts",
      items |-> <<
        [item |-> "Frozen Phyllo Dough", unit |-> "box"],
        [item |-> "Frozen Pie Crusts", unit |-> "pack"],
        [item |-> "Frozen Puff Pastry", unit |-> "box"],
        [item |-> "Frozen Yogurt", unit |-> "pint"],
        [item |-> "Ice Cream", unit |-> "pint"],
        [item |-> "Ice Cream Bars", unit |-> "box"] >>],
     [category |-> "Beverages",
      items |-> <<
        [item |-> "Apple Juice", unit |-> "bottle"],
        [item |-> "Bottled Water", unit |-> "pack"],
        [item |-> "Club Soda", unit |-> "bottle"],
        [item |-> "Coconut Water", unit |-> "carton"],
        [item |-> "Cranberry Juice", unit |-> "bottle"],
        [item |-> "Energy Drinks", unit |-> "pack"],
        [item |-> "Fresca", unit |-> "pack"],
        [item |-> "Grape Juice", unit |-> "bottle"],
        [item |-> "Iced Tea", unit |-> "bottle"],
        [item |-> "Lemonade", unit |-> "carton"],
        [item |-> "Orange Juice", unit |-> "carton"],
        [item |-> "Soda (Cola)", unit |-> "cans"],
        [item |-> "Soda (Ginger Ale)", unit |-> "pack"],
        [item |-> "Soda (Lemon-Lime)", unit |-> "pack"],
        [item |-> "Sparkling Water", unit |-> "pack"],
        [item |-> "Sports Drinks", unit |-> "pack"],
        [item |-> "Tonic Water", unit |-> "bottle"] >>],
     [category |-> "Coffee & Tea",
      items |-> <<
        [item |-> "Black Tea", unit |-> "box"],
        [item |-> "Chai Tea", unit |-> "box"],
        [item |-> "Chamomile Tea", unit |-> "box"],
        [item |-> "Coffee (Ground)", unit |-> "bag"],
        [item |-> "Coffee (Instant)", unit |-> "jar"],
        [item |-> "Coffee (K-Cups)", unit |-> "box"],
        [item |-> "Coffee (Whole Bean)", unit |-> "bag"],
        [item |-> "Decaf Coffee", unit |-> "bag"],
        [item |-> "Earl Grey Tea", unit |-> "box"],
        [item |-> "Espresso", unit |-> "bag"],
        [item |-> "Green Tea", unit |-> "box"],
        [item |-> "Herbal Tea", unit |-> "box"],
        [item |-> "Matcha Powder", unit |-> "container"],
        [item |-> "Peppermint Tea", unit |-> "box"] >>],
     [category |-> "Snacks",
      items |-> <<
        [item |-> "Beef Jerky", unit |-> "bag"],
        [item |-> "Cheese Puffs", unit |-> "bag"],
        [item |-> "Crackers (Cheese)", unit |-> "box"],
        [item |-> "Crackers (Graham)", unit |-> "box"],
        [item |-> "Crackers (Saltine)", unit |-> "box"],
        [item |-> "Crackers (Wheat)", unit |-> "box"],
        [item |-> "Fruit Snacks", unit |-> "box"],
        [item |-> "Granola Bars", unit |-> "box"],
        [item |-> "Popcorn", unit |-> "bag"],
        [item |-> "Potato Chips", unit |-> "bag"],
        [item |-> "Pretzels", unit |-> "bag"],
        [item |-> "Protein Bars", unit |-> "box"],
        [item |-> "Rice Cakes", unit |-> "bag"],
        [item |-> "Tortilla Chips", unit |-> "bag"],
        [item |-> "Veggie Straws", unit |-> "bag"] >>],
     [category |-> "Breakfast",
      items |-> <<
        [item |-> "Breakfast Bars", unit |-> "box"],
        [item |-> "Cereal (Cold)", unit |-> "box"],
        [item |-> "Granola", unit |-> "bag"],
        [item |-> "Muesli", unit |-> "bag"],
        [item |-> "Muffin Mix", unit |-> "box"],
        [item |-> "Pancake Mix", unit |-> "box"],
        [item |-> "Pop-Tarts", unit |-> "box"],
        [item |-> "Waffle Mix", unit |-> "box"] >>],
     [category |-> "Baby & Infant",
      items |-> <<
        [item |-> "Baby Cereal", unit |-> "box"],
        [item |-> "Baby Food (Jars)", unit |-> "jar"],
        [item |-> "Baby Food (Pouches)", unit |-> "each"],
        [item |-> "Baby Formula", unit |-> "can"],
        [item |-> "Teething Biscuits", unit |-> "box"] >>],
     [category |-> "Pet Food",
      items |-> <<
        [item |-> "Cat Food (Dry)", unit |-> "bag"],
        [item |-> "Cat Food (Wet)", unit |-> "can"],
        [item |-> "Cat Treats", unit |-> "bag"],
        [item |-> "Dog Food (Dry)", unit |-> "bag"],
        [item |-> "Dog Food (Wet)", unit |-> "can"],
        [item |-> "Dog Treats", unit |-> "bag"] >>],
     [category |-> "Household - Paper",
      items |-> <<
        [item |-> "Aluminum Foil", unit |-> "roll"],
        [item |-> "Facial Tissues", unit |-> "box"],
        [item |-> "Napkins", unit |-> "pack"],
        [item |-> "Paper Cups", unit |-> "pack"],
        [item |-> "Paper Plates", unit |-> "pack"],
        [item |-> "Paper Towels", unit |-> "pack"],
        [item |-> "Parchment Paper", unit |-> "roll"],
        [item |-> "Plastic Wrap", unit |-> "roll"],
        [item |-> "Toilet Paper", unit |-> "pack"],
        [item |-> "Trash Bags (Kitchen)", unit |-> "box"],
        [item |-> "Trash Bags (Large)", unit |-> "box"],
        [item |-> "Wax Paper", unit |-> "roll"],
        [item |-> "Zip-Lock Bags (Gallon)", unit |-> "box"],
        [item |-> "Zip-Lock Bags (Quart)", unit |-> "box"],
        [item |-> "Zip-Lock Bags (Sandwich)", unit |-> "box"] >>],
     [category |-> "Household - Cleaning",
      items |-> <<
        [item |-> "All-Purpose Cleaner", unit |-> "bottle"],
        [item |-> "Bleach", unit |-> "bottle"],
        [item |-> "Broom", unit |-> "each"],
        [item |-> "Dish Soap", unit |-> "bottle"],
        [item |-> "Dishwasher Detergent", unit |-> "bottle"],
        [item |-> "Disinfecting Wipes", unit |-> "container"],
        [item |-> "Dryer Sheets", unit |-> "box"],
        [item |-> "Fabric Softener", unit |-> "bottle"],
        [item |-> "Glass Cleaner", unit |-> "bottle"],
        [item |-> "Laundry Detergent", unit |-> "bottle"],
        [item |-> "Mop", unit |-> "each"],
        [item |-> "Scrub Brushes", unit |-> "each"],
        [item |-> "Sponges", unit |-> "pack"] >>],
     [category |-> "Personal Care",
      items |-> <<
        [item |-> "Bar Soap", unit |-> "pack"],
        [item |-> "Body Wash", unit |-> "bottle"],
        [item |-> "Conditioner", unit |-> "bottle"],
        [item |-> "Cotton Balls", unit |-> "bag"],
        [item |-> "Cotton Swabs", unit |-> "box"],
        [item |-> "Dental Floss", unit |-> "each"],
        [item |-> "Deodorant", unit |-> "each"],
        [item |-> "Hand Sanitizer", unit |-> "bottle"],
        [item |-> "Hand Soap", unit |-> "bottle"],
        [item |-> "Lip Balm", unit |-> "each"],
        [item |-> "Lotion", unit |-> "bottle"],
        [item |-> "Mouthwash", unit |-> "bottle"],
        [item |-> "Razors", unit |-> "pack"],
        [item |-> "Shampoo", unit |-> "bottle"],
        [item |-> "Shaving Cream", unit |-> "can"],
        [item |-> "Sunscreen", unit |-> "bottle"],
        [item |-> "Toothbrush", unit |-> "each"],
        [item |-> "Toothpaste", unit |-> "each"] >>],
     [category |-> "Health",
      items |-> <<
        [item |-> "Allergy Medicine", unit |-> "box"],
        [item |-> "Antacid", unit |-> "bottle"],
        [item |-> "Bandages", unit |-> "box"],
        [item |-> "Cold Medicine", unit |-> "bottle"],
        [item |-> "Cough Drops", unit |-> "bag"],
        [item |-> "First Aid Kit", unit |-> "each"],
        [item |-> "Fish Oil", unit |-> "bottle"],
        [item |-> "Melatonin", unit |-> "bottle"],
        [item |-> "Multivitamins", unit |-> "bottle"],
        [item |-> "Pain Reliever (Acetaminophen)", unit |-> "bottle"],
        [item |-> "Pain Reliever (Ibuprofen)", unit |-> "bottle"],
        [item |-> "Probiotics", unit |-> "bottle"],
        [item |-> "Vitamin C", unit |-> "bottle"],
        [item |-> "Vitamin D", unit |-> "bottle"] >>],
     [category |-> "International",
      items |-> <<
        [item |-> "Coconut Cream", unit |-> "can"],
        [item |-> "Curry Paste", unit |-> "jar"],
        [item |-> "Enchilada Sauce", unit |-> "can"],
        [item |-> "Miso Paste", unit |-> "container"],
        [item |-> "Mole Sauce", unit |-> "jar"],
        [item |-> "Seaweed/Nori", unit |-> "pack"],
        [item |-> "Taco Shells", unit |-> "box"],
        [item |-> "Tempeh", unit |-> "pack"],
        [item |-> "Tofu", unit |-> "pack"] >>] >>

(* UNITS: the general unit option list. *)
UNITS ==
  << "each", "lb", "oz", "kg", "g", "gal", "half gal", "qt", "pint", "cup", "fl oz", "L", "mL", "tsp", "tbsp", "dozen", "pack", "box", "bag", "bundle", "roll", "carton", "bottle", "cans", "jar", "container", "loaf", "bunch", "head", "clove" >>

(* CUSTOM_UNITS: item -> (unit options, default index); the index is zero-based
   as in the source. *)
CUSTOM_UNITS ==
  << [item |-> "Whole Milk", units |-> <<"quart", "half gallon", "gallon">>, default_idx |-> 1],
     [item |-> "2% Milk", units |-> <<"quart", "half gallon", "gallon">>, default_idx |-> 1],
     [item |-> "Skim Milk", units |-> <<"quart", "half gallon", "gallon">>, default_idx |-> 1],
     [item |-> "Half & Half", units |-> <<"pint", "quart">>, default_idx |-> 0],
     [item |-> "Heavy Cream", units |-> <<"half pint", "pint", "quart">>, default_idx |-> 1],
     [item |-> "Butter (Salted)", units |-> <<"stick", "lb">>, default_idx |-> 0],
     [item |-> "Butter (Unsalted)", units |-> <<"stick", "lb">>, default_idx |-> 0],
     [item |-> "Eggs (Large)", units |-> <<"half dozen", "dozen", "18-count">>, default_idx |-> 1],
     [item |-> "Sour Cream", units |-> <<"8 oz", "16 oz">>, default_idx |-> 1],
     [item |-> "Cream Cheese", units |-> <<"8 oz", "tub">>, default_idx |-> 0],
     [item |-> "Cottage Cheese", units |-> <<"16 oz", "24 oz">>, default_idx |-> 0],
     [item |-> "Ricotta Cheese", units |-> <<"15 oz", "32 oz">>, default_idx |-> 0],
     [item |-> "Yogurt (Plain)", units |-> <<"5.3 oz", "32 oz">>, default_idx |-> 1],
     [item |-> "Yogurt (Greek)", units |-> <<"5.3 oz", "32 oz">>, default_idx |-> 0],
     [item |-> "Cheddar Cheese", units |-> <<"slices", "block", "lb", "8 oz shredded">>, default_idx |-> 1],
     [item |-> "Swiss Cheese", units |-> <<"slices", "block", "lb">>, default_idx |-> 0],
     [item |-> "Mozzarella Cheese", units |-> <<"slices", "block", "lb", "8 oz shredded", "fresh ball">>, default_idx |-> 1],
     [item |-> "Parmesan Cheese", units |-> <<"wedge", "grated", "lb">>, default_idx |-> 0],
     [item |-> "Provolone Cheese", units |-> <<"slices", "block", "lb">>, default_idx |-> 0],
     [item |-> "American Cheese", units |-> <<"slices", "block", "lb">>, default_idx |-> 0],
     [item |-> "Pepper Jack Cheese", units |-> <<"slices", "block", "lb", "8 oz shredded">>, default_idx |-> 1],
     [item |-> "Feta Cheese", units |-> <<"4 oz crumbles", "8 oz block", "lb">>, default_idx |-> 0],
     [item |-> "Blue Cheese", units |-> <<"4 oz crumbles", "8 oz wedge", "lb">>, default_idx |-> 0],
     [item |-> "Goat Cheese", units |-> <<"4 oz log", "8 oz log", "crumbles">>, default_idx |-> 0],
     [item |-> "Brie", units |-> <<"small wheel", "wedge", "lb">>, default_idx |-> 0],
     [item |-> "Shredded Mexican Blend", units |-> <<"8 oz", "16 oz", "32 oz">>, default_idx |-> 1] >>

(* ITEM_BRANDS: item -> predefined brand options. *)
ITEM_BRANDS ==
  << [item |-> "Whole Milk",
      brands |-> <<"", "Prairie Farms", "Organic Valley", "Fairlife", "Kirkland">>],
     [item |-> "2% Milk",
      brands |-> <<"", "Prairie Farms", "Organic Valley", "Fairlife", "Kirkland">>],
     [item |-> "Skim Milk",
      brands |-> <<"", "Prairie Farms", "Organic Valley", "Fairlife">>],
     [item |-> "Half & Half",
      brands |-> <<"", "Prairie Farms", "Organic Valley", "Land O'Lakes">>],
     [item |-> "Heavy Cream",
      brands |-> <<"", "Prairie Farms", "Organic Valley", "Land O'Lakes">>],
     [item |-> "Butter (Salted)",
      brands |-> <<"", "Kerrygold", "Land O'Lakes", "Kirkland", "Prairie Farms">>],
     [item |-> "Butter (Unsalted)",
      brands |-> <<"", "Kerrygold", "Land O'Lakes", "Kirkland", "Prairie Farms">>],
     [item |-> "Eggs (Large)",
      brands |-> <<"", "Kirkland", "Eggland's Best", "Vital Farms", "Store Brand">>],
     [item |-> "Yogurt (Plain)",
      brands |-> <<"", "Fage", "Chobani", "Kirkland", "Stonyfield">>],
     [item |-> "Yogurt (Greek)",
      brands |-> <<"", "Fage", "Chobani", "Kirkland", "Stonyfield">>],
     [item |-> "Cream Cheese",
      brands |-> <<"", "Philadelphia", "Prairie Farms", "Store Brand">>],
     [item |-> "Sour Cream",
      brands |-> <<"", "Daisy", "Prairie Farms", "Store Brand">>],
     [item |-> "Cottage Cheese",
      brands |-> <<"", "Prairie Farms", "Daisy", "Breakstone's", "Store Brand">>],
     [item |-> "Cheddar Cheese",
      brands |-> <<"", "Tillamook", "Kerrygold", "Cabot", "Boar's Head", "Kirkland">>],
     [item |-> "Swiss Cheese",
      brands |-> <<"", "Boar's Head", "Tillamook", "Finlandia", "Kirkland">>],
     [item |-> "Mozzarella Cheese",
      brands |-> <<"", "BelGioioso", "Galbani", "Boar's Head", "Kirkland">>],
     [item |-> "Parmesan Cheese",
      brands |-> <<"", "Parmigiano-Reggiano", "BelGioioso", "Kirkland">>],
     [item |-> "Provolone Cheese",
      brands |-> <<"", "Boar's Head", "BelGioioso", "Tillamook", "Kirkland">>],
     [item |-> "American Cheese",
      brands |-> <<"", "Boar's Head", "Tillamook", "Land O'Lakes", "Kirkland">>],
     [item |-> "Pepper Jack Cheese",
      brands |-> <<"", "Tillamook", "Boar's Head", "Cabot", "Kirkland">>],
     [item |-> "Feta Cheese",
      brands |-> <<"", "Mt Vikos", "Athenos", "Kirkland", "BelGioioso">>],
     [item |-> "Blue Cheese",
      brands |-> <<"", "Rogue Creamery", "Maytag", "Point Reyes", "Kirkland">>],
     [item |-> "Goat Cheese",
      brands |-> <<"", "Montchevre", "Laura Chenel", "Kirkland">>],
     [item |-> "Ricotta Cheese",
      brands |-> <<"", "BelGioioso", "Galbani", "Calabro">>],
     [item |-> "Brie",
      brands |-> <<"", "President", "St. Andre", "Kirkland">>],
     [item |-> "Shredded Mexican Blend",
      brands |-> <<"", "Tillamook", "Kirkland", "Sargento">>],
     [item |-> "Almond Milk",
      brands |-> <<"", "Silk", "Kirkland", "Blue Diamond">>],
     [item |-> "Oat Milk",
      brands |-> <<"", "Oatly", "Chobani", "Kirkland", "Planet Oat">>],
     [item |-> "Diced Tomatoes",
      brands |-> <<"", "Muir Glen", "Cento", "Kirkland", "San Marzano">>],
     [item |-> "Crushed Tomatoes",
      brands |-> <<"", "Muir Glen", "Cento", "Kirkland", "San Marzano">>],
     [item |-> "Tomato Paste",
      brands |-> <<"", "Muir Glen", "Cento", "Amore">>],
     [item |-> "Tomato Sauce",
      brands |-> <<"", "Muir Glen", "Cento", "Kirkland">>],
     [item |-> "Black Beans",
      brands |-> <<"", "Bush's", "Goya", "Kirkland", "Store Brand">>],
     [item |-> "Kidney Beans",
      brands |-> <<"", "Bush's", "Goya", "Store Brand">>],
     [item |-> "Pinto Beans",
      brands |-> <<"", "Bush's", "Goya", "Store Brand">>],
     [item |-> "Tuna (Canned)",
      brands |-> <<"", "Wild Planet", "Kirkland", "Starkist", "Bumble Bee">>],
     [item |-> "Chicken Broth",
      brands |-> <<"", "Swanson", "Kirkland", "Pacific", "Store Brand">>],
     [item |-> "Beef Broth",
      brands |-> <<"", "Swanson", "Kirkland", "Pacific", "Store Brand">>],
     [item |-> "Vegetable Broth",
      brands |-> <<"", "Swanson", "Kirkland", "Pacific", "Store Brand">>],
     [item |-> "Ketchup",
      brands |-> <<"", "Heinz", "Hunt's", "Store Brand">>],
     [item |-> "Mustard (Yellow)",
      brands |-> <<"", "French's", "Heinz">>],
     [item |-> "Mustard (Dijon)",
      brands |-> <<"", "Grey Poupon", "Maille">>],
     [item |-> "Mayonnaise",
      brands |-> <<"", "Hellmann's", "Duke's", "Kirkland">>],
     [item |-> "Hot Sauce",
      brands |-> <<"", "Tabasco", "Frank's RedHot", "Cholula", "Sriracha">>],
     [item |-> "Soy Sauce",
      brands |-> <<"", "Kikkoman", "San-J", "Kirkland">>],
     [item |-> "Marinara Sauce",
      brands |-> <<"", "Rao's", "La San Marzano", "Victoria", "Kirkland">>],
     [item |-> "Peanut Butter",
      brands |-> <<"", "Smucker's Natural", "Justin's", "Kirkland", "Jif">>],
     [item |-> "Almond Butter",
      brands |-> <<"", "Justin's", "MaraNatha", "Kirkland">>],
     [item |-> "Olive Oil (Extra Virgin)",
      brands |-> <<"", "California Olive Ranch", "Kirkland", "Lucini", "Colavita">>],
     [item |-> "Bacon",
      brands |-> <<"", "Nueske's", "Applegate", "Wright", "Kirkland">>],
     [item |-> "Coffee (Ground)",
      brands |-> <<"", "Peet's", "Intelligentsia", "Starbucks", "Kirkland">>],
     [item |-> "Coffee (Whole Bean)",
      brands |-> <<"", "Intelligentsia", "Peet's", "Lavazza", "Kirkland">>] >>

(***************************************************************************)
(* Python values and dictionary operations.                                *)
(***************************************************************************)
NONE == "None"
NOKEY == "<no key>"

(* `key in d` and `d[key]` for an item -> unit dictionary kept as a         *)
(* sequence of [item, unit] records.                                       *)
HasItem(items, item_name) ==
  \E j \in DOMAIN items : items[j].item = item_name

UnitOf(items, item_name) ==
  items[CHOOSE j \in DOMAIN items : items[j].item = item_name].unit

(* `x in list` for a Python list kept as a sequence. *)
InList(x, list) ==
  \E j \in DOMAIN list : list[j] = x

(* `item_name in CUSTOM_UNITS`, `CUSTOM_UNITS[item_name]`. *)
HasCustomUnits(item_name) ==
  \E j \in DOMAIN CUSTOM_UNITS : CUSTOM_UNITS[j].item = item_name

CustomUnitsOf(item_name) ==
  CUSTOM_UNITS[CHOOSE j \in DOMAIN CUSTOM_UNITS : CUSTOM_UNITS[j].item = item_name]

(* `item in ITEM_BRANDS`, `ITEM_BRANDS[item]`. *)
(* The keys of ITEM_BRANDS, and the dictionary as a lookup table. *)
BrandedItems == { ITEM_BRANDS[j].item : j \in DOMAIN ITEM_BRANDS }

ItemBrandsIndex ==
  [i \in BrandedItems |->
     ITEM_BRANDS[CHOOSE j \in DOMAIN ITEM_BRANDS : ITEM_BRANDS[j].item = i].brands]

HasItemBrands(item) ==
  item \in BrandedItems

ItemBrandsOf(item) ==
  ItemBrandsIndex[item]

(* The loop `for cat, items in d.items(): if item_name in items`, from the  *)
(* c-th category on: the index of the first category whose item dictionary *)
(* holds item_name, 0 when none does.                                      *)
RECURSIVE ScanCategories(_, _, _)
ScanCategories(cats, item_name, c) ==
  IF c > Len(cats) THEN 0
  ELSE IF HasItem(cats[c].items, item_name) THEN c
  ELSE ScanCategories(cats, item_name, c + 1)

FirstCategoryWith(cats, item_name) ==
  ScanCategories(cats, item_name, 1)

(* Every item name of MASTER_LIST. *)
master_items ==
  UNION { { MASTER_LIST[c].items[j].item : j \in DOMAIN MASTER_LIST[c].items } :
          c \in DOMAIN MASTER_LIST }

(* The scan of MASTER_LIST for an item, tabulated: the index of the first  *)
(* category that holds it, 0 when none does.                               *)
MasterIndex ==
  [i \in master_items |-> FirstCategoryWith(MASTER_LIST, i)]

MasterCategoryOf(item_name) ==
  IF item_name \in master_items THEN MasterIndex[item_name] ELSE 0

(* `category in MASTER_LIST`. *)
master_categories ==
  { MASTER_LIST[c].category : c \in DOMAIN MASTER_LIST }

(***************************************************************************)
(* State.  st.session_state and the four JSON documents on disk.           *)
(***************************************************************************)
VARIABLES
  item_preferences,   \* item -> [unit, brand]
  custom_brands,      \* group -> sequence of brands
  hidden_items,       \* set of item names
  custom_items,       \* sequence of [category, items], items as in MASTER_LIST
  grocery_list,       \* sequence of [item, qty, unit, brand]
  import_applied,     \* "import_applied" in st.session_state
  uploaded,           \* the file held by the "import_prefs" uploader, or NoUpload
  PREFS_FILE,         \* the documents: [state, data], state "missing", "ok"
  CUSTOM_BRANDS_FILE, \*   or "corrupt"
  HIDDEN_ITEMS_FILE,
  CUSTOM_ITEMS_FILE,
  IS_CLOUD,           \* the deployment the process runs in
  disk_writable,      \* whether open(file, "w") succeeds
  disk_full,          \* whether writing to the opened file raises IOError
  outcome,            \* what the last handler showed: toast, st.error, traceback
  probe               \* a call of a pure function: its argument and result

vars ==
  << item_preferences, custom_brands, hidden_items, custom_items, grocery_list,
     import_applied, uploaded, PREFS_FILE, CUSTOM_BRANDS_FILE, HIDDEN_ITEMS_FILE,
     CUSTOM_ITEMS_FILE, IS_CLOUD, disk_writable, disk_full, outcome, probe >>

sessionVars ==
  << item_preferences, custom_brands, hidden_items, custom_items >>

fileVars ==
  << PREFS_FILE, CUSTOM_BRANDS_FILE, HIDDEN_ITEMS_FILE, CUSTOM_ITEMS_FILE >>

envVars ==
  << IS_CLOUD, disk_writable, disk_full >>

uploadVars ==
  << import_applied, uploaded >>

(***************************************************************************)
(* get_brand_group, get_brands_for_item, get_default_unit.                 *)
(***************************************************************************)
(* Every item named by a brand group, and for each the name of the first   *)
(* group that lists it: what the loop of get_brand_group returns.          *)
grouped_items ==
  UNION { { BRAND_GROUPS[g].items[k] : k \in DOMAIN BRAND_GROUPS[g].items } :
          g \in DOMAIN BRAND_GROUPS }

BrandGroupIndex ==
  [i \in grouped_items |->
     BRAND_GROUPS[CHOOSE g \in DOMAIN BRAND_GROUPS :
       /\ InList(i, BRAND_GROUPS[g].items)
       /\ \A h \in 1..(g - 1) : ~InList(i, BRAND_GROUPS[h].items)].group]

get_brand_group(item) ==
  IF item \in grouped_items THEN BrandGroupIndex[item] ELSE NONE

(* The loop `for custom_brand in ...: if custom_brand not in brands:        *)
(* brands.append(custom_brand)`, from the k-th custom brand on.            *)
RECURSIVE AppendMissing(_, _, _)
AppendMissing(brands, more, k) ==
  IF k > Len(more) THEN brands
  ELSE AppendMissing(IF InList(more[k], brands) THEN brands
                     ELSE Append(brands, more[k]),
                     more, k + 1)

get_default_unit_catalog_first(item_name) ==
  LET c == MasterCategoryOf(item_name) IN
  IF c # 0 THEN UnitOf(MASTER_LIST[c].items, item_name)
  ELSE IF HasCustomUnits(item_name)
       THEN CustomUnitsOf(item_name).units[CustomUnitsOf(item_name).default_idx + 1]
       ELSE "each"

get_default_unit_no_catalog(item_name) ==
  IF HasCustomUnits(item_name)
  THEN CustomUnitsOf(item_name).units[CustomUnitsOf(item_name).default_idx + 1]
  ELSE "each"

get_default_unit_custom_items(item_name) ==
  IF HasCustomUnits(item_name)
  THEN CustomUnitsOf(item_name).units[CustomUnitsOf(item_name).default_idx + 1]
  ELSE LET c == MasterCategoryOf(item_name)
           k == FirstCategoryWith(custom_items, item_name)
       IN  IF c # 0 THEN UnitOf(MASTER_LIST[c].items, item_name)
           ELSE IF k # 0 THEN UnitOf(custom_items[k].items, item_name)
           ELSE "each"

get_default_unit(item_name) ==
  IF HasCustomUnits(item_name)
  THEN LET units == CustomUnitsOf(item_name).units
           default_idx == CustomUnitsOf(item_name).default_idx
       IN  units[default_idx + 1]
  ELSE LET c == MasterCategoryOf(item_name) IN
       IF c # 0 THEN UnitOf(MASTER_LIST[c].items, item_name)
       ELSE "each"

(* Python truthiness of a brand value: None and "" are false. *)
Truthy(x) ==
  x # "" /\ x # NONE /\ x # NOKEY

(* `d.get(key, default)` on a preference record. *)
Get(value, default) ==
  IF value = NOKEY THEN default ELSE value

get_brands_for_item_no_dedupe(item, custom_brands_dict, preferences_dict) ==
  IF ~HasItemBrands(item) THEN << >>
  ELSE
    LET group == get_brand_group(item)
        with_custom ==
          IF group # NONE /\ group \in DOMAIN custom_brands_dict
          THEN ItemBrandsOf(item) \o custom_brands_dict[group]
          ELSE ItemBrandsOf(item)
        saved_brand ==
          IF item \in DOMAIN preferences_dict
          THEN preferences_dict[item].brand ELSE NONE
    IN  IF Truthy(saved_brand) /\ ~InList(saved_brand, with_custom)
        THEN Append(with_custom, saved_brand)
        ELSE with_custom

get_brands_for_item_saved_first(item, custom_brands_dict, preferences_dict) ==
  IF ~HasItemBrands(item) THEN << >>
  ELSE
    LET group == get_brand_group(item)
        saved_brand ==
          IF item \in DOMAIN preferences_dict
          THEN preferences_dict[item].brand ELSE NONE
        with_saved ==
          IF Truthy(saved_brand) /\ ~InList(saved_brand, ItemBrandsOf(item))
          THEN Append(ItemBrandsOf(item), saved_brand)
          ELSE ItemBrandsOf(item)
    IN  IF group # NONE /\ group \in DOMAIN custom_brands_dict
        THEN AppendMissing(with_saved, custom_brands_dict[group], 1)
        ELSE with_saved

get_brands_for_item_no_saved(item, custom_brands_dict, preferences_dict) ==
  IF ~HasItemBrands(item) THEN << >>
  ELSE
    LET group == get_brand_group(item) IN
    IF group # NONE /\ group \in DOMAIN custom_brands_dict
    THEN AppendMissing(ItemBrandsOf(item), custom_brands_dict[group], 1)
    ELSE ItemBrandsOf(item)

get_brands_for_item(item, custom_brands_dict, preferences_dict) ==
  IF ~HasItemBrands(item) THEN << >>
  ELSE
    LET group == get_brand_group(item)
        with_custom ==
          IF group # NONE /\ group \in DOMAIN custom_brands_dict
          THEN AppendMissing(ItemBrandsOf(item), custom_brands_dict[group], 1)
          ELSE ItemBrandsOf(item)
        saved_brand ==
          IF item \in DOMAIN preferences_dict
          THEN preferences_dict[item].brand ELSE NONE
    IN  IF Truthy(saved_brand) /\ ~InList(saved_brand, with_custom)
        THEN Append(with_custom, saved_brand)
        ELSE with_custom

(***************************************************************************)
(* Dictionaries kept as functions: {}, d[k] = v, del d[k].                 *)
(***************************************************************************)
EmptyDict == [k \in {} |-> NONE]

DictSet(d, k, v) ==
  [x \in DOMAIN d \cup {k} |-> IF x = k THEN v ELSE d[x]]

DictDel(d, k) ==
  [x \in DOMAIN d \ {k} |-> d[x]]

(***************************************************************************)
(* The persisted documents: load_* and save_*.                             *)
(***************************************************************************)
MissingFile(empty) == [state |-> "missing", data |-> empty]

(* load_preferences, load_custom_brands, load_custom_items: {} in the      *)
(* cloud, for a missing file and for one json.load cannot read.            *)
load_dict(file) ==
  IF IS_CLOUD THEN EmptyDict
  ELSE IF file.state = "ok" THEN file.data ELSE EmptyDict

load_custom_items(file) ==
  IF IS_CLOUD THEN << >>
  ELSE IF file.state = "ok" THEN file.data ELSE << >>

load_hidden_items(file) ==
  IF IS_CLOUD THEN {}
  ELSE IF file.state = "ok" THEN file.data ELSE {}

(* save_*: the document after the call; nothing is written in the cloud,   *)
(* and an IOError is swallowed.  open(file, "w") empties the document      *)
(* before json.dump writes: an IOError of open leaves the document as it   *)
(* was, an IOError of the write leaves what was written until then, which  *)
(* json.load cannot read.                                                  *)
save_file(file, data) ==
  IF IS_CLOUD THEN file
  ELSE IF ~disk_writable THEN file
  ELSE IF disk_full THEN [state |-> "corrupt", data |-> data]
  ELSE [state |-> "ok", data |-> data]

(***************************************************************************)
(* List and dictionary steps of the handlers.                              *)
(***************************************************************************)
(* list.remove(x): the list without its first x. *)
RemoveFirst(list, x) ==
  LET k == CHOOSE j \in DOMAIN list :
             list[j] = x /\ \A h \in 1..(j - 1) : list[h] # x
  IN  [j \in 1..(Len(list) - 1) |-> IF j < k THEN list[j] ELSE list[j + 1]]

(* list(dict.fromkeys(list)): the first occurrences, in order. *)
DedupeList(list) ==
  AppendMissing(<< >>, list, 1)

(* The index of a category in custom_items, 0 when it has none. *)
CategoryIndex(cats, category) ==
  IF \E c \in DOMAIN cats : cats[c].category = category
  THEN CHOOSE c \in DOMAIN cats : cats[c].category = category
  ELSE 0

(* items[item_name] = unit on an item -> unit dictionary: a known key keeps *)
(* its place, a new key goes last.                                         *)
SetUnit(items, item_name, unit) ==
  IF HasItem(items, item_name)
  THEN [j \in DOMAIN items |->
          IF items[j].item = item_name
          THEN [item |-> item_name, unit |-> unit] ELSE items[j]]
  ELSE Append(items, [item |-> item_name, unit |-> unit])

(* The category of an item as the preferences tab finds it: MASTER_LIST    *)
(* first, then custom_items; NONE when neither holds it.                   *)
PreferenceCategory(item) ==
  IF MasterCategoryOf(item) # 0
  THEN MASTER_LIST[MasterCategoryOf(item)].category
  ELSE IF FirstCategoryWith(custom_items, item) # 0
       THEN custom_items[FirstCategoryWith(custom_items, item)].category
       ELSE NONE

(* The items the master list tab shows: per MASTER_LIST category, the      *)
(* catalog's items and the custom items of that category, less the hidden. *)
VisibleInMasterList(item) ==
  /\ item \notin hidden_items
  /\ \/ item \in master_items
     \/ \E k \in DOMAIN custom_items :
          /\ custom_items[k].category \in master_categories
          /\ HasItem(custom_items[k].items, item)

(* The unit selector of the configuration dialog: the item's CUSTOM_UNITS  *)
(* options, or the fixed default unit.                                     *)
ConfigUnitOptions(item) ==
  IF HasCustomUnits(item)
  THEN { CustomUnitsOf(item).units[j] : j \in DOMAIN CustomUnitsOf(item).units }
  ELSE { get_default_unit(item) }

(***************************************************************************)
(* Import payloads.  json is what json.loads makes of the text: "invalid"  *)
(* (JSONDecodeError), an "object", an "array" or a "number".  A section is *)
(* a key of the object: present or not, and ok when its value has the JSON *)
(* type the handlers expect (an object; for hidden_items an array).        *)
(***************************************************************************)
Section(value) == [present |-> TRUE, ok |-> TRUE, val |-> value]

NoSection(empty) == [present |-> FALSE, ok |-> TRUE, val |-> empty]

BadSection(empty) == [present |-> TRUE, ok |-> FALSE, val |-> empty]

Payload(json, preferences, brands, hidden, items) ==
  [json |-> json, preferences |-> preferences, custom_brands |-> brands,
   hidden_items |-> hidden, custom_items |-> items]

NoSections(json) ==
  Payload(json, NoSection(EmptyDict), NoSection(EmptyDict), NoSection({}),
          NoSection(<< >>))

(* The uploader holding no file: `uploaded is None`. *)
NoUpload == NoSections(NONE)

(***************************************************************************)
(* Calls of get_default_unit.                                              *)
(***************************************************************************)
UnknownItems == {"Dragon Fruit", "whole milk", ""}

ProbeItems ==
  master_items \cup { CUSTOM_UNITS[j].item : j \in DOMAIN CUSTOM_UNITS }
    \cup UnknownItems

IdleProbe == [pc |-> "idle", item_name |-> NONE, result |-> NONE]

(* A session that holds a user-added item the catalogs do not know. *)
OrphanItems ==
  << [category |-> "Produce - Fruits",
      items |-> << [item |-> "Dragon Fruit", unit |-> "jar"] >>] >>

OrphanPreferences ==
  [i \in {"Dragon Fruit"} |-> [unit |-> "box", brand |-> ""]]

InitDefaultUnit ==
  /\ IS_CLOUD = FALSE
  /\ disk_writable = TRUE
  /\ disk_full = FALSE
  /\ PREFS_FILE \in { MissingFile(EmptyDict),
                      [state |-> "ok", data |-> OrphanPreferences] }
  /\ CUSTOM_BRANDS_FILE = MissingFile(EmptyDict)
  /\ HIDDEN_ITEMS_FILE = MissingFile({})
  /\ CUSTOM_ITEMS_FILE \in { MissingFile(<< >>),
                             [state |-> "ok", data |-> OrphanItems] }
  /\ item_preferences = load_dict(PREFS_FILE)
  /\ custom_brands = load_dict(CUSTOM_BRANDS_FILE)
  /\ hidden_items = load_hidden_items(HIDDEN_ITEMS_FILE)
  /\ custom_items = load_custom_items(CUSTOM_ITEMS_FILE)
  /\ grocery_list = << >>
  /\ import_applied = FALSE
  /\ uploaded = NoUpload
  /\ outcome = NONE
  /\ probe \in [pc : {"idle"}, item_name : ProbeItems, result : {NONE}]

CallGetDefaultUnit ==
  /\ probe.pc = "idle"
  /\ probe' = [probe EXCEPT !.pc = "done",
                            !.result = get_default_unit(probe.item_name)]
  /\ UNCHANGED << sessionVars, fileVars, envVars, uploadVars, grocery_list,
                  outcome >>

NextDefaultUnit == CallGetDefaultUnit

SpecDefaultUnit == InitDefaultUnit /\ [][NextDefaultUnit]_vars

(* The categories of MASTER_LIST that hold an item. *)
CategoriesOf(item_name) ==
  { c \in DOMAIN MASTER_LIST : HasItem(MASTER_LIST[c].items, item_name) }

(* C7: for every item with a CUSTOM_UNITS entry, get_default_unit returns   *)
(* the unit at the declared default index, whatever MASTER_LIST stores:    *)
(* "Whole Milk" yields "half gallon", not the catalog's "half gal".        *)
C7_CustomUnitDefault ==
  probe.pc = "done" =>
    /\ \A j \in DOMAIN CUSTOM_UNITS :
         probe.item_name = CUSTOM_UNITS[j].item =>
           /\ CUSTOM_UNITS[j].default_idx + 1 \in DOMAIN CUSTOM_UNITS[j].units
           /\ probe.result = CUSTOM_UNITS[j].units[CUSTOM_UNITS[j].default_idx + 1]
    /\ probe.item_name = "Whole Milk" => probe.result = "half gallon"

C7_Witness ==
  /\ probe.pc = "done"
  /\ probe.item_name = "Whole Milk"
  /\ probe.result = "half gallon"
  /\ UnitOf(MASTER_LIST[4].items, "Whole Milk") = "half gal"

(* C8 as stated: for every item present in exactly one MASTER_LIST          *)
(* category, get_default_unit returns the unit stored for it there.        *)
C8_Original ==
  (probe.pc = "done" /\ Cardinality(CategoriesOf(probe.item_name)) = 1) =>
    \A c \in CategoriesOf(probe.item_name) :
      probe.result = UnitOf(MASTER_LIST[c].items, probe.item_name)

(* C8 amended: for every item present in exactly one MASTER_LIST category   *)
(* that has no CUSTOM_UNITS entry, get_default_unit returns the unit       *)
(* stored for it in that category.                                         *)
C8_CatalogUnit ==
  ( /\ probe.pc = "done"
    /\ Cardinality(CategoriesOf(probe.item_name)) = 1
    /\ \A j \in DOMAIN CUSTOM_UNITS : CUSTOM_UNITS[j].item # probe.item_name ) =>
    \A c \in CategoriesOf(probe.item_name) :
      probe.result = UnitOf(MASTER_LIST[c].items, probe.item_name)

C8_Witness ==
  /\ probe.pc = "done"
  /\ probe.item_name = "Ketchup"
  /\ CategoriesOf("Ketchup") = {16}
  /\ probe.result = "bottle"

(* C9: for an item name with no CUSTOM_UNITS entry and in no MASTER_LIST    *)
(* category, get_default_unit returns "each", whatever the session holds   *)
(* for that name (a custom item, a saved preference).                      *)
C9_FallbackEach ==
  ( /\ probe.pc = "done"
    /\ CategoriesOf(probe.item_name) = {}
    /\ \A j \in DOMAIN CUSTOM_UNITS : CUSTOM_UNITS[j].item # probe.item_name ) =>
    probe.result = "each"

C9_Witness ==
  /\ probe.pc = "done"
  /\ probe.item_name = "Dragon Fruit"
  /\ FirstCategoryWith(custom_items, "Dragon Fruit") # 0
  /\ "Dragon Fruit" \in DOMAIN item_preferences
  /\ probe.result = "each"

(***************************************************************************)
(* The preference handlers.                                                *)
(***************************************************************************)
MaxPrefs == 1

(* What the user types or picks. *)
ItemPool == {"Cheddar Cheese", "Swiss Cheese", "Eggs (Large)"}

BrandPool == {"", "NewBrand", "Cabot"}

UnitPool == {"lb", "dozen"}

(* The rows of the preferences tab: the saved items a category is found for. *)
HasPreferenceRow(item) ==
  item \in DOMAIN item_preferences /\ PreferenceCategory(item) # NONE

(* The configuration dialog opens from the gear of a visible master list   *)
(* item or from the edit button of a preferences row.                      *)
CanConfigure(item) ==
  VisibleInMasterList(item) \/ HasPreferenceRow(item)

save_custom_brand_always_append(brands_dict, item, new_brand) ==
  IF /\ Truthy(new_brand)
     /\ HasItemBrands(item)
     /\ ~InList(new_brand, ItemBrandsOf(item))
     /\ get_brand_group(item) # NONE
  THEN LET group == get_brand_group(item)
           list == IF group \in DOMAIN brands_dict
                   THEN brands_dict[group] ELSE << >>
       IN  DictSet(brands_dict, group, Append(list, new_brand))
  ELSE brands_dict

save_custom_brand_per_item(brands_dict, item, new_brand) ==
  IF /\ Truthy(new_brand)
     /\ HasItemBrands(item)
     /\ ~InList(new_brand, ItemBrandsOf(item))
     /\ get_brand_group(item) # NONE
  THEN LET list == IF item \in DOMAIN brands_dict
                   THEN brands_dict[item] ELSE << >>
       IN  IF InList(new_brand, list) THEN brands_dict
           ELSE DictSet(brands_dict, item, Append(list, new_brand))
  ELSE brands_dict

save_custom_brand_ungrouped_shared(brands_dict, item, new_brand) ==
  IF /\ Truthy(new_brand)
     /\ HasItemBrands(item)
     /\ ~InList(new_brand, ItemBrandsOf(item))
  THEN LET group == get_brand_group(item)
           list == IF group \in DOMAIN brands_dict
                   THEN brands_dict[group] ELSE << >>
       IN  IF InList(new_brand, list) THEN brands_dict
           ELSE DictSet(brands_dict, group, Append(list, new_brand))
  ELSE brands_dict

(* The custom brand step of Save Preferences: custom_brands after it. *)
save_custom_brand(brands_dict, item, new_brand) ==
  IF /\ Truthy(new_brand)
     /\ HasItemBrands(item)
     /\ ~InList(new_brand, ItemBrandsOf(item))
     /\ get_brand_group(item) # NONE
  THEN LET group == get_brand_group(item)
           list == IF group \in DOMAIN brands_dict
                   THEN brands_dict[group] ELSE << >>
       IN  IF InList(new_brand, list)
           THEN DictSet(brands_dict, group, list)
           ELSE DictSet(brands_dict, group, Append(list, new_brand))
  ELSE brands_dict

(* "Save Preferences" in the configuration dialog. *)
SavePreferences(item, new_unit, new_brand) ==
  /\ CanConfigure(item)
  /\ new_unit \in ConfigUnitOptions(item)
  /\ Cardinality(DOMAIN item_preferences \cup {item}) <= MaxPrefs
  /\ item_preferences' =
       DictSet(item_preferences, item, [unit |-> new_unit, brand |-> new_brand])
  /\ PREFS_FILE' = save_file(PREFS_FILE, item_preferences')
  /\ custom_brands' = save_custom_brand(custom_brands, item, new_brand)
  /\ CUSTOM_BRANDS_FILE' =
       IF custom_brands' # custom_brands
       THEN save_file(CUSTOM_BRANDS_FILE, custom_brands')
       ELSE CUSTOM_BRANDS_FILE
  /\ outcome' = NONE
  /\ UNCHANGED << hidden_items, custom_items, HIDDEN_ITEMS_FILE,
                  CUSTOM_ITEMS_FILE, grocery_list, uploadVars, envVars, probe >>

(* The unit selector of a preferences row: the user picks another unit. *)
SelectPreferenceUnit(item, new_unit) ==
  /\ HasPreferenceRow(item)
  /\ LET prefs == item_preferences[item]
         unit_options ==
           IF HasCustomUnits(item) THEN CustomUnitsOf(item).units ELSE UNITS
         old_unit == Get(prefs.unit, get_default_unit(item))
     IN  /\ InList(new_unit, unit_options)
         /\ new_unit # old_unit
         /\ item_preferences' =
              DictSet(item_preferences, item, [prefs EXCEPT !.unit = new_unit])
  /\ PREFS_FILE' = save_file(PREFS_FILE, item_preferences')
  /\ outcome' = NONE
  /\ UNCHANGED << custom_brands, hidden_items, custom_items, CUSTOM_BRANDS_FILE,
                  HIDDEN_ITEMS_FILE, CUSTOM_ITEMS_FILE, grocery_list, uploadVars,
                  envVars, probe >>

(* The brand selector of a preferences row: the user picks another brand. *)
SelectPreferenceBrand(item, selected_brand) ==
  /\ HasPreferenceRow(item)
  /\ HasItemBrands(item)
  /\ LET prefs == item_preferences[item]
         current_brand == Get(prefs.brand, "")
         all_brands ==
           get_brands_for_item(item, custom_brands, item_preferences)
     IN  /\ ~Truthy(current_brand) \/ InList(current_brand, all_brands)
         /\ InList(selected_brand, all_brands)
         /\ selected_brand # current_brand
         /\ item_preferences' =
              DictSet(item_preferences, item,
                      [prefs EXCEPT !.brand = selected_brand])
  /\ PREFS_FILE' = save_file(PREFS_FILE, item_preferences')
  /\ outcome' = NONE
  /\ UNCHANGED << custom_brands, hidden_items, custom_items, CUSTOM_BRANDS_FILE,
                  HIDDEN_ITEMS_FILE, CUSTOM_ITEMS_FILE, grocery_list, uploadVars,
                  envVars, probe >>

(* "Remove preference" on a preferences row. *)
RemovePreference(item) ==
  /\ HasPreferenceRow(item)
  /\ item_preferences' = DictDel(item_preferences, item)
  /\ PREFS_FILE' = save_file(PREFS_FILE, item_preferences')
  /\ outcome' = NONE
  /\ UNCHANGED << custom_brands, hidden_items, custom_items, CUSTOM_BRANDS_FILE,
                  HIDDEN_ITEMS_FILE, CUSTOM_ITEMS_FILE, grocery_list, uploadVars,
                  envVars, probe >>

(* The delete button of a brand under "Manage Custom Brands". *)
DeleteCustomBrand(group, brand) ==
  /\ group \in DOMAIN custom_brands
  /\ InList(brand, custom_brands[group])
  /\ LET rest == RemoveFirst(custom_brands[group], brand)
     IN  custom_brands' =
           IF rest = << >> THEN DictDel(custom_brands, group)
           ELSE DictSet(custom_brands, group, rest)
  /\ CUSTOM_BRANDS_FILE' = save_file(CUSTOM_BRANDS_FILE, custom_brands')
  /\ outcome' = NONE
  /\ UNCHANGED << item_preferences, hidden_items, custom_items, PREFS_FILE,
                  HIDDEN_ITEMS_FILE, CUSTOM_ITEMS_FILE, grocery_list, uploadVars,
                  envVars, probe >>

(* The session as the import handlers read and write it. *)
Session ==
  [item_preferences |-> item_preferences, custom_brands |-> custom_brands,
   hidden_items |-> hidden_items, custom_items |-> custom_items,
   PREFS_FILE |-> PREFS_FILE, CUSTOM_BRANDS_FILE |-> CUSTOM_BRANDS_FILE,
   HIDDEN_ITEMS_FILE |-> HIDDEN_ITEMS_FILE,
   CUSTOM_ITEMS_FILE |-> CUSTOM_ITEMS_FILE,
   import_applied |-> import_applied, outcome |-> NONE]

import_preferences_update(s, imported) ==
  IF imported.json = "invalid" THEN [s EXCEPT !.outcome = "invalid"]
  ELSE IF imported.json = "number" THEN [s EXCEPT !.outcome = "exception"]
  ELSE IF imported.json = "array"
       THEN [s EXCEPT !.import_applied = TRUE, !.outcome = "imported"]
  ELSE
    LET updated_brands ==
          [g \in DOMAIN s.custom_brands \cup DOMAIN imported.custom_brands.val |->
             IF g \in DOMAIN imported.custom_brands.val
             THEN imported.custom_brands.val[g] ELSE s.custom_brands[g]]
        s1 == IF imported.preferences.present
              THEN [s EXCEPT
                      !.item_preferences = imported.preferences.val,
                      !.PREFS_FILE =
                         save_file(s.PREFS_FILE, imported.preferences.val)]
              ELSE s
        s2 == IF imported.custom_brands.present
              THEN [s1 EXCEPT
                      !.custom_brands = updated_brands,
                      !.CUSTOM_BRANDS_FILE =
                         save_file(s.CUSTOM_BRANDS_FILE, updated_brands)]
              ELSE s1
        s3 == IF imported.hidden_items.present
              THEN [s2 EXCEPT
                      !.hidden_items = imported.hidden_items.val,
                      !.HIDDEN_ITEMS_FILE =
                         save_file(s.HIDDEN_ITEMS_FILE,
                                   imported.hidden_items.val)]
              ELSE s2
        s4 == IF imported.custom_items.present
              THEN [s3 EXCEPT
                      !.custom_items = imported.custom_items.val,
                      !.CUSTOM_ITEMS_FILE =
                         save_file(s.CUSTOM_ITEMS_FILE,
                                   imported.custom_items.val)]
              ELSE s3
    IN  IF imported.hidden_items.present /\ ~imported.hidden_items.ok
        THEN [s2 EXCEPT !.outcome = "exception"]
        ELSE [s4 EXCEPT !.import_applied = TRUE, !.outcome = "imported"]

(* The "Import Preferences" block on an uploaded file: the session after   *)
(* it.  A TypeError is not caught: the run ends with what was assigned.    *)
import_preferences(s, imported) ==
  IF imported.json = "invalid" THEN [s EXCEPT !.outcome = "invalid"]
  ELSE IF imported.json = "number" THEN [s EXCEPT !.outcome = "exception"]
  ELSE IF imported.json = "array"
       THEN [s EXCEPT !.import_applied = TRUE, !.outcome = "imported"]
  ELSE
    LET s1 == IF imported.preferences.present
              THEN [s EXCEPT
                      !.item_preferences = imported.preferences.val,
                      !.PREFS_FILE =
                         save_file(s.PREFS_FILE, imported.preferences.val)]
              ELSE s
        s2 == IF imported.custom_brands.present
              THEN [s1 EXCEPT
                      !.custom_brands = imported.custom_brands.val,
                      !.CUSTOM_BRANDS_FILE =
                         save_file(s.CUSTOM_BRANDS_FILE,
                                   imported.custom_brands.val)]
              ELSE s1
        s3 == IF imported.hidden_items.present
              THEN [s2 EXCEPT
                      !.hidden_items = imported.hidden_items.val,
                      !.HIDDEN_ITEMS_FILE =
                         save_file(s.HIDDEN_ITEMS_FILE,
                                   imported.hidden_items.val)]
              ELSE s2
        s4 == IF imported.custom_items.present
              THEN [s3 EXCEPT
                      !.custom_items = imported.custom_items.val,
                      !.CUSTOM_ITEMS_FILE =
                         save_file(s.CUSTOM_ITEMS_FILE,
                                   imported.custom_items.val)]
              ELSE s3
    IN  IF imported.hidden_items.present /\ ~imported.hidden_items.ok
        THEN [s2 EXCEPT !.outcome = "exception"]
        ELSE [s4 EXCEPT !.import_applied = TRUE, !.outcome = "imported"]

(* The script's pass over the import block: it imports when the uploader   *)
(* holds a file and "import_applied" is not set.                           *)
import_block(s, file) ==
  IF file # NoUpload /\ ~s.import_applied
  THEN import_preferences(s, file)
  ELSE s

(* The imported records apply_scan_import keeps: those with a unit and a   *)
(* brand.                                                                  *)
ScannedItems(prefs) ==
  { i \in DOMAIN prefs : prefs[i].unit # NOKEY /\ prefs[i].brand # NOKEY }

merge_preferences_unfiltered(old, prefs) ==
  [i \in DOMAIN old \cup DOMAIN prefs |->
     IF i \in DOMAIN prefs THEN prefs[i] ELSE old[i]]

merge_preferences(old, prefs) ==
  [i \in DOMAIN old \cup ScannedItems(prefs) |->
     IF i \in ScannedItems(prefs) THEN prefs[i] ELSE old[i]]

merge_custom_brands(old, scanned) ==
  [g \in DOMAIN old \cup DOMAIN scanned |->
     IF g \in DOMAIN scanned
     THEN DedupeList((IF g \in DOMAIN old THEN old[g] ELSE << >>) \o scanned[g])
     ELSE old[g]]

(* The inner loop over one scanned category, from its j-th item on. *)
RECURSIVE merge_items(_, _, _)
merge_items(items, scanned, j) ==
  IF j > Len(scanned) THEN items
  ELSE merge_items(IF scanned[j].item \notin master_items
                   THEN SetUnit(items, scanned[j].item, scanned[j].unit)
                   ELSE items,
                   scanned, j + 1)

(* The loop over the scanned categories, from the k-th on. *)
RECURSIVE merge_custom_items(_, _, _)
merge_custom_items(cats, scanned, k) ==
  IF k > Len(scanned) THEN cats
  ELSE
    LET with_category ==
          IF CategoryIndex(cats, scanned[k].category) = 0
          THEN Append(cats, [category |-> scanned[k].category, items |-> << >>])
          ELSE cats
        c == CategoryIndex(with_category, scanned[k].category)
    IN  merge_custom_items(
          [with_category EXCEPT
             ![c].items = merge_items(with_category[c].items,
                                      scanned[k].items, 1)],
          scanned, k + 1)

(* apply_scan_import and its callers, which catch JSONDecodeError and      *)
(* KeyError alone: the AttributeError of a section that is no object ends  *)
(* the run with what was merged and saved before it.                       *)
apply_scan_import(s, scanned) ==
  IF scanned.json = "invalid" THEN [s EXCEPT !.outcome = "invalid"]
  ELSE IF scanned.json = "number" THEN [s EXCEPT !.outcome = "exception"]
  ELSE IF scanned.json = "array" THEN [s EXCEPT !.outcome = "imported"]
  ELSE
    LET merged_prefs ==
          merge_preferences(s.item_preferences, scanned.preferences.val)
        s1 == IF scanned.preferences.present
              THEN [s EXCEPT
                      !.item_preferences = merged_prefs,
                      !.PREFS_FILE = save_file(s.PREFS_FILE, merged_prefs)]
              ELSE s
        merged_brands ==
          merge_custom_brands(s.custom_brands, scanned.custom_brands.val)
        s2 == IF scanned.custom_brands.present
              THEN [s1 EXCEPT
                      !.custom_brands = merged_brands,
                      !.CUSTOM_BRANDS_FILE =
                         save_file(s.CUSTOM_BRANDS_FILE, merged_brands)]
              ELSE s1
        merged_items ==
          merge_custom_items(s.custom_items, scanned.custom_items.val, 1)
        s3 == IF scanned.custom_items.present
              THEN [s2 EXCEPT
                      !.custom_items = merged_items,
                      !.CUSTOM_ITEMS_FILE =
                         save_file(s.CUSTOM_ITEMS_FILE, merged_items)]
              ELSE s2
    IN  IF scanned.preferences.present /\ ~scanned.preferences.ok
        THEN [s EXCEPT !.outcome = "exception"]
        ELSE IF scanned.custom_brands.present /\ ~scanned.custom_brands.ok
        THEN [s1 EXCEPT !.outcome = "exception"]
        ELSE IF scanned.custom_items.present /\ ~scanned.custom_items.ok
        THEN [s2 EXCEPT !.outcome = "exception"]
        ELSE [s3 EXCEPT !.outcome = "imported"]

(* The session variables take the values a handler left. *)
Becomes(s) ==
  /\ item_preferences' = s.item_preferences
  /\ custom_brands' = s.custom_brands
  /\ hidden_items' = s.hidden_items
  /\ custom_items' = s.custom_items
  /\ PREFS_FILE' = s.PREFS_FILE
  /\ CUSTOM_BRANDS_FILE' = s.CUSTOM_BRANDS_FILE
  /\ HIDDEN_ITEMS_FILE' = s.HIDDEN_ITEMS_FILE
  /\ CUSTOM_ITEMS_FILE' = s.CUSTOM_ITEMS_FILE
  /\ import_applied' = s.import_applied
  /\ outcome' = s.outcome

(* The user picks a backup file in the "import_prefs" uploader; the run    *)
(* that follows passes the import block.                                   *)
UploadBackup(file) ==
  /\ uploaded' = file
  /\ Cardinality(DOMAIN import_block(Session, file).item_preferences) <= MaxPrefs
  /\ Becomes(import_block(Session, file))
  /\ UNCHANGED << grocery_list, envVars, probe >>

(* The user removes the file from the uploader. *)
RemoveUpload ==
  /\ uploaded # NoUpload
  /\ uploaded' = NoUpload
  /\ outcome' = NONE
  /\ UNCHANGED << sessionVars, fileVars, import_applied, grocery_list, envVars,
                  probe >>

(* "Clear upload": deletes import_applied and reruns the script, which     *)
(* passes the import block with the file the uploader still holds.         *)
ClearUpload ==
  /\ import_applied
  /\ Becomes(import_block([Session EXCEPT !.import_applied = FALSE], uploaded))
  /\ UNCHANGED << uploaded, grocery_list, envVars, probe >>

(* Any other rerun while the uploader holds a file whose import did not    *)
(* complete passes the import block again.                                 *)
RerunImport ==
  /\ uploaded # NoUpload
  /\ ~import_applied
  /\ Becomes(import_block(Session, uploaded))
  /\ UNCHANGED << uploaded, grocery_list, envVars, probe >>

(* "Import" / "Import File" under "Add from Scan". *)
ScanImport(scanned) ==
  /\ Cardinality(DOMAIN apply_scan_import(Session, scanned).item_preferences)
       <= MaxPrefs
  /\ Becomes(apply_scan_import(Session, scanned))
  /\ UNCHANGED << uploaded, grocery_list, envVars, probe >>

(* The backup files the user uploads. *)
DuplicatesBackup ==
  Payload("object",
    Section([i \in {"Swiss Cheese"} |-> [unit |-> NOKEY, brand |-> NOKEY]]),
    Section([g \in {"cheese"} |-> << "NewBrand", "Cabot", "NewBrand" >>]),
    NoSection({}),
    NoSection(<< >>))

FullBackup ==
  Payload("object",
    Section([i \in {"Eggs (Large)"} |->
               [unit |-> "dozen", brand |-> "FarmFresh"]]),
    Section([g \in {"milk"} |-> << "FarmFresh" >>]),
    Section({"Apples"}),
    Section(<< [category |-> "Dairy",
                items |-> << [item |-> "Dragon Fruit", unit |-> "jar"] >>] >>))

BadHiddenBackup ==
  Payload("object",
    Section([i \in {"Cheddar Cheese"} |->
               [unit |-> "lb", brand |-> "NewBrand"]]),
    Section(EmptyDict),
    BadSection({}),
    Section(<< >>))

BackupFiles ==
  { NoSections("invalid"), NoSections("array"), DuplicatesBackup, FullBackup,
    BadHiddenBackup }

(* The scan data the user pastes or uploads. *)
GoodScan ==
  Payload("object",
    Section([i \in {"Cheddar Cheese", "Eggs (Large)"} |->
               IF i = "Cheddar Cheese"
               THEN [unit |-> "lb", brand |-> "NewBrand"]
               ELSE [unit |-> NOKEY, brand |-> "Cabot"]]),
    Section([g \in {"cheese"} |-> << "Cabot", "NewBrand", "Cabot" >>]),
    NoSection({}),
    Section(<< [category |-> "Dairy",
                items |-> << [item |-> "Whole Milk", unit |-> "gal"],
                             [item |-> "Dragon Fruit", unit |-> "jar"] >>] >>))

BadBrandsScan ==
  Payload("object",
    Section([i \in {"Eggs (Large)"} |->
               [unit |-> "dozen", brand |-> "FarmFresh"]]),
    BadSection(EmptyDict),
    NoSection({}),
    NoSection(<< >>))

BadItemsScan ==
  Payload("object",
    Section([i \in {"Eggs (Large)"} |-> [unit |-> "dozen", brand |-> NOKEY]]),
    Section([g \in {"cheese"} |-> << "NewBrand" >>]),
    NoSection({}),
    BadSection(<< >>))

ScanTexts ==
  { NoSections("invalid"), GoodScan, BadBrandsScan, BadItemsScan }

(***************************************************************************)
(* The preference, custom brand and import handlers together.              *)
(***************************************************************************)
Init ==
  /\ IS_CLOUD = FALSE
  /\ disk_writable = TRUE
  /\ disk_full = FALSE
  /\ PREFS_FILE = MissingFile(EmptyDict)
  /\ CUSTOM_BRANDS_FILE = MissingFile(EmptyDict)
  /\ HIDDEN_ITEMS_FILE = MissingFile({})
  /\ CUSTOM_ITEMS_FILE = MissingFile(<< >>)
  /\ item_preferences = load_dict(PREFS_FILE)
  /\ custom_brands = load_dict(CUSTOM_BRANDS_FILE)
  /\ hidden_items = load_hidden_items(HIDDEN_ITEMS_FILE)
  /\ custom_items = load_custom_items(CUSTOM_ITEMS_FILE)
  /\ grocery_list = << >>
  /\ import_applied = FALSE
  /\ uploaded = NoUpload
  /\ outcome = NONE
  /\ probe = IdleProbe

Next ==
  \/ \E item \in ItemPool, new_unit \in UnitPool, new_brand \in BrandPool :
       SavePreferences(item, new_unit, new_brand)
  \/ \E item \in ItemPool, new_unit \in UnitPool :
       SelectPreferenceUnit(item, new_unit)
  \/ \E item \in ItemPool, selected_brand \in BrandPool :
       SelectPreferenceBrand(item, selected_brand)
  \/ \E item \in ItemPool : RemovePreference(item)
  \/ \E group \in DOMAIN custom_brands :
       \E k \in DOMAIN custom_brands[group] :
         DeleteCustomBrand(group, custom_brands[group][k])
  \/ \E file \in BackupFiles : UploadBackup(file)
  \/ RemoveUpload
  \/ ClearUpload
  \/ RerunImport
  \/ \E scanned \in ScanTexts : ScanImport(scanned)

Spec == Init /\ [][Next]_vars

(***************************************************************************)
(* Properties of the brand lists.                                          *)
(***************************************************************************)
(* The brand list the dialogs show for an item, now and after a step. *)
BrandsNow(item) == get_brands_for_item(item, custom_brands, item_preferences)

BrandsNext(item) == get_brands_for_item(item, custom_brands', item_preferences')

Elements(list) == { list[k] : k \in DOMAIN list }

Count(list, x) == Cardinality({ k \in DOMAIN list : list[k] = x })

FirstIndexOf(list, x) ==
  CHOOSE k \in DOMAIN list : list[k] = x /\ \A h \in 1..(k - 1) : list[h] # x

(* The custom brands of an item's group, << >> when it has none. *)
GroupBrands(item) ==
  IF get_brand_group(item) \in DOMAIN custom_brands
  THEN custom_brands[get_brand_group(item)] ELSE << >>

(* The saved brand of an item, "" when none is saved. *)
SavedBrand(item) ==
  IF item \in DOMAIN item_preferences /\ Truthy(item_preferences[item].brand)
  THEN item_preferences[item].brand ELSE ""

(* C1: for every item and every reachable custom_brands and preferences    *)
(* mapping, get_brands_for_item returns a list in which no brand occurs    *)
(* twice.                                                                  *)
C1_NoDuplicateBrands ==
  \A item \in BrandedItems \cup ItemPool \cup UnknownItems :
    LET brands == BrandsNow(item)
    IN  \A i, j \in DOMAIN brands : brands[i] = brands[j] => i = j

(* A custom brand list that repeats a brand and names a predefined brand   *)
(* of the item.                                                            *)
C1_Witness ==
  /\ "cheese" \in DOMAIN custom_brands
  /\ Count(custom_brands["cheese"], "NewBrand") = 2
  /\ InList("Cabot", custom_brands["cheese"])
  /\ InList("Cabot", ItemBrandsOf("Cheddar Cheese"))
  /\ Len(BrandsNow("Cheddar Cheese")) = Len(ItemBrandsOf("Cheddar Cheese")) + 1

(* C2: for an item with an ITEM_BRANDS entry the list is, in this order:   *)
(* the predefined brands, "" first; the custom brands of the item's group  *)
(* that are not predefined, once each, in their order of first insertion;  *)
(* and last the saved brand, when it is non-empty and in neither.  For     *)
(* "Eggs (Large)" with saved brand "FarmFresh" it is the five predefined   *)
(* entries followed by "FarmFresh".                                        *)
C2_BrandOrder ==
  /\ \A item \in BrandedItems :
       LET predefined == ItemBrandsOf(item)
           custom == GroupBrands(item)
           saved == SavedBrand(item)
           orphan == IF /\ saved # ""
                        /\ saved \notin Elements(predefined)
                        /\ saved \notin Elements(custom)
                     THEN << saved >> ELSE << >>
           brands == BrandsNow(item)
           middle == SubSeq(brands, Len(predefined) + 1,
                            Len(brands) - Len(orphan))
       IN  /\ predefined[1] = ""
           /\ Len(brands) >= Len(predefined) + Len(orphan)
           /\ SubSeq(brands, 1, Len(predefined)) = predefined
           /\ Elements(middle) = Elements(custom) \ Elements(predefined)
           /\ \A i, j \in DOMAIN middle :
                i < j => FirstIndexOf(custom, middle[i])
                           < FirstIndexOf(custom, middle[j])
           /\ SubSeq(brands, Len(brands) - Len(orphan) + 1, Len(brands)) = orphan
  /\ SavedBrand("Eggs (Large)") = "FarmFresh" =>
       BrandsNow("Eggs (Large)") =
         << "", "Kirkland", "Eggland's Best", "Vital Farms", "Store Brand",
            "FarmFresh" >>

C2_Witness ==
  /\ SavedBrand("Eggs (Large)") = "FarmFresh"
  /\ Len(BrandsNow("Eggs (Large)")) = 6
  /\ BrandsNow("Swiss Cheese") =
       ItemBrandsOf("Swiss Cheese") \o << "Cabot", "NewBrand" >>
  /\ BrandsNow("Cheddar Cheese") =
       ItemBrandsOf("Cheddar Cheese") \o << "NewBrand" >>

(* C3: a saved brand stays selectable: whenever an item with an            *)
(* ITEM_BRANDS entry has a non-empty saved brand b, also after custom      *)
(* brands were deleted, get_brands_for_item of the item contains b, and b  *)
(* is its last entry when b is neither predefined nor a custom brand of    *)
(* the item's group.                                                       *)
C3_SavedBrandSelectable ==
  \A item \in BrandedItems :
    LET saved == SavedBrand(item)
        brands == BrandsNow(item)
    IN  saved # "" =>
          /\ InList(saved, brands)
          /\ ( /\ ~InList(saved, ItemBrandsOf(item))
               /\ ~InList(saved, GroupBrands(item)) ) =>
               brands[Len(brands)] = saved

(* The saved custom brand of a grouped item after the group lost its last  *)
(* custom brand.                                                           *)
C3_Witness ==
  /\ SavedBrand("Cheddar Cheese") = "NewBrand"
  /\ "cheese" \notin DOMAIN custom_brands
  /\ CUSTOM_BRANDS_FILE.state = "ok"
  /\ uploaded = NoUpload
  /\ BrandsNow("Cheddar Cheese") =
       ItemBrandsOf("Cheddar Cheese") \o << "NewBrand" >>

(***************************************************************************)
(* Properties of Save Preferences.                                         *)
(***************************************************************************)
(* The step is a Save Preferences for the item with a non-empty brand that *)
(* is not predefined for it (the saved unit and brand are those the item's *)
(* preference holds after the step); grouped tells whether the item is to  *)
(* belong to a brand group.                                                *)
SavesCustomBrand(item, grouped) ==
  /\ item \in DOMAIN item_preferences'
  /\ Truthy(item_preferences'[item].brand)
  /\ HasItemBrands(item)
  /\ ~InList(item_preferences'[item].brand, ItemBrandsOf(item))
  /\ (get_brand_group(item) # NONE) = grouped
  /\ SavePreferences(item, item_preferences'[item].unit,
                     item_preferences'[item].brand)

(* C4: saving a preference for a grouped item with a non-empty brand that  *)
(* is not predefined for the item leaves the custom brand list of the      *)
(* item's group holding that brand exactly once, and a save made when the  *)
(* list already holds the brand leaves the list as it was.                 *)
C4_Original ==
  [][ \A item \in DOMAIN item_preferences' :
        SavesCustomBrand(item, TRUE) =>
          LET group == get_brand_group(item)
              new_brand == item_preferences'[item].brand
          IN  /\ group \in DOMAIN custom_brands'
              /\ Count(custom_brands'[group], new_brand) = 1
              /\ ( /\ group \in DOMAIN custom_brands
                   /\ InList(new_brand, custom_brands[group]) ) =>
                   custom_brands'[group] = custom_brands[group] ]_vars

(* C5: after a preference is saved for an item of a brand group with a     *)
(* non-empty brand that is not predefined for it, the brand list of every  *)
(* item of the group holds the brand exactly once, and an item outside the *)
(* group has the brand in its list only if it had it before or it is the   *)
(* item's own saved brand.                                                 *)
C5_SharedInGroup ==
  [][ \A item \in DOMAIN item_preferences' :
        SavesCustomBrand(item, TRUE) =>
          LET new_brand == item_preferences'[item].brand
          IN  \A other \in BrandedItems :
                IF get_brand_group(other) = get_brand_group(item)
                THEN Count(BrandsNext(other), new_brand) = 1
                ELSE InList(new_brand, BrandsNext(other)) =>
                       \/ SavedBrand(other) = new_brand
                       \/ InList(new_brand, BrandsNow(other)) ]_vars

(* A brand saved for one cheese is offered for another one. *)
C5_Witness ==
  /\ SavedBrand("Cheddar Cheese") = "NewBrand"
  /\ "Swiss Cheese" \notin DOMAIN item_preferences
  /\ Count(BrandsNow("Swiss Cheese"), "NewBrand") = 1
  /\ Count(BrandsNow("Cheddar Cheese"), "NewBrand") = 1
  /\ ~InList("NewBrand", BrandsNow("Eggs (Large)"))
  /\ outcome = NONE
  /\ uploaded = NoUpload

C10_Original ==
  [][ outcome' \in {"invalid", "exception"} =>
        /\ UNCHANGED << sessionVars, fileVars >>
        /\ outcome' = "invalid" ]_vars

(* The step passes the import block with the backup file and the import    *)
(* completes.                                                              *)
ImportsBackup(file) ==
  /\ outcome' = "imported"
  /\ import_applied'
  /\ \/ UploadBackup(file)
     \/ uploaded = file /\ (ClearUpload \/ RerunImport)

ImportsScan(scanned) ==
  /\ outcome' \in {"imported", "exception"}
  /\ scanned.json = "object"
  /\ ScanImport(scanned)

BrandsOfGroup(brands_dict, group) ==
  IF group \in DOMAIN brands_dict THEN brands_dict[group] ELSE << >>

NoDuplicateCustomBrands ==
  \A group \in DOMAIN custom_brands :
    \A i, j \in DOMAIN custom_brands[group] :
      custom_brands[group][i] = custom_brands[group][j] => i = j

(* A Save Preferences step that lengthens a group's list appends the saved *)
(* brand, which is not predefined for the saved item.                      *)
SaveAppendsNoPredefinedBrand ==
  \A item \in DOMAIN item_preferences' :
    ( /\ SavePreferences(item, item_preferences'[item].unit,
                         item_preferences'[item].brand)
      /\ custom_brands' # custom_brands ) =>
      LET group == get_brand_group(item)
          new_brand == item_preferences'[item].brand
      IN  /\ group # NONE
          /\ custom_brands'[group] =
               Append(BrandsOfGroup(custom_brands, group), new_brand)
          /\ ~InList(new_brand, ItemBrandsOf(item))

(* C15: in every state reached through saves, custom brand deletions and   *)
(* imports of either mode no custom brand list holds a brand twice, and a  *)
(* brand a save appends to a group list is not predefined for the saved    *)
(* item.                                                                   *)
C15_Original ==
  /\ []NoDuplicateCustomBrands
  /\ [][SaveAppendsNoPredefinedBrand]_vars

(***************************************************************************)
(* The master list in edit mode: add a custom item, remove an item,        *)
(* restore a hidden item.                                                  *)
(***************************************************************************)
(* items.update(more) on an item -> unit dictionary, from the j-th item of *)
(* more on.                                                                *)
RECURSIVE update_items(_, _, _)
update_items(items, more, j) ==
  IF j > Len(more) THEN items
  ELSE update_items(SetUnit(items, more[j].item, more[j].unit), more, j + 1)

(* The items of a MASTER_LIST category as the master list tab merges them: *)
(* dict(base_items), then update with the category's custom items.         *)
merged_items(category) ==
  LET c == CHOOSE c \in DOMAIN MASTER_LIST : MASTER_LIST[c].category = category
      k == CategoryIndex(custom_items, category)
  IN  IF k = 0 THEN MASTER_LIST[c].items
      ELSE update_items(MASTER_LIST[c].items, custom_items[k].items, 1)

(* visible_items of a category holds the item. *)
IsVisible(category, item) ==
  /\ category \in master_categories
  /\ item \notin hidden_items
  /\ HasItem(merged_items(category), item)

is_custom(category, item) ==
  /\ CategoryIndex(custom_items, category) # 0
  /\ HasItem(custom_items[CategoryIndex(custom_items, category)].items, item)

(* custom_items[category][name] = unit, the category created when missing. *)
add_custom_item(cats, category, name, unit) ==
  LET with_category ==
        IF CategoryIndex(cats, category) = 0
        THEN Append(cats, [category |-> category, items |-> << >>])
        ELSE cats
      c == CategoryIndex(with_category, category)
  IN  [with_category EXCEPT ![c].items = SetUnit(with_category[c].items, name, unit)]

(* A sequence without its k-th element. *)
WithoutIndex(seq, k) ==
  [j \in 1..(Len(seq) - 1) |-> IF j < k THEN seq[j] ELSE seq[j + 1]]

delete_custom_item_keep_category(cats, category, item) ==
  LET k == CategoryIndex(cats, category)
  IN  [cats EXCEPT ![k].items = SelectSeq(cats[k].items, LAMBDA e : e.item # item)]

(* del custom_items[category][item], and del custom_items[category] when   *)
(* nothing is left in it.                                                  *)
delete_custom_item(cats, category, item) ==
  LET k == CategoryIndex(cats, category)
      rest == SelectSeq(cats[k].items, LAMBDA e : e.item # item)
  IN  IF rest = << >> THEN WithoutIndex(cats, k)
      ELSE [cats EXCEPT ![k].items = rest]

(* hidden_items.add(item). *)
hide_item(hidden, item) ==
  hidden \cup {item}

restore_item_clear(hidden, item) ==
  IF item \in hidden
  THEN [raised |-> NONE, hidden |-> {}]
  ELSE [raised |-> "KeyError", hidden |-> hidden]

(* hidden_items.remove(item): set.remove raises KeyError for an element    *)
(* the set does not hold.                                                  *)
restore_item(hidden, item) ==
  IF item \in hidden
  THEN [raised |-> NONE, hidden |-> hidden \ {item}]
  ELSE [raised |-> "KeyError", hidden |-> hidden]

(* The number of custom items, over all categories. *)
RECURSIVE CountCustomItems(_, _)
CountCustomItems(cats, k) ==
  IF k > Len(cats) THEN 0
  ELSE Len(cats[k].items) + CountCustomItems(cats, k + 1)

MaxCustomItems == 2

CategoryPool == {"Dairy", "Produce - Fruits"}

NamePool == {"Dragon Fruit", "Whole Milk", ""}

NewUnitPool == {"jar", "each"}

RemovePool == {"Apples", "Whole Milk", "Dragon Fruit"}

(* "Add" under a category in edit mode. *)
AddCustomItem(category, new_item_name, new_item_unit) ==
  /\ category \in master_categories
  /\ InList(new_item_unit, UNITS)
  /\ new_item_name # ""
  /\ custom_items' =
       add_custom_item(custom_items, category, new_item_name, new_item_unit)
  /\ CountCustomItems(custom_items', 1) <= MaxCustomItems
  /\ CUSTOM_ITEMS_FILE' = save_file(CUSTOM_ITEMS_FILE, custom_items')
  /\ outcome' = NONE
  /\ UNCHANGED << item_preferences, custom_brands, hidden_items, PREFS_FILE,
                  CUSTOM_BRANDS_FILE, HIDDEN_ITEMS_FILE, grocery_list,
                  uploadVars, envVars, probe >>

(* The remove button of a visible item in edit mode: a custom item of the  *)
(* category is deleted, any other item is hidden.                          *)
RemoveItem(category, item) ==
  /\ IsVisible(category, item)
  /\ IF is_custom(category, item)
     THEN /\ custom_items' = delete_custom_item(custom_items, category, item)
          /\ CUSTOM_ITEMS_FILE' = save_file(CUSTOM_ITEMS_FILE, custom_items')
          /\ UNCHANGED << hidden_items, HIDDEN_ITEMS_FILE >>
     ELSE /\ hidden_items' = hide_item(hidden_items, item)
          /\ HIDDEN_ITEMS_FILE' = save_file(HIDDEN_ITEMS_FILE, hidden_items')
          /\ UNCHANGED << custom_items, CUSTOM_ITEMS_FILE >>
  /\ outcome' = NONE
  /\ UNCHANGED << item_preferences, custom_brands, PREFS_FILE,
                  CUSTOM_BRANDS_FILE, grocery_list, uploadVars, envVars, probe >>

RestoreItem_unsaved(item) ==
  /\ item \in hidden_items
  /\ hidden_items' = restore_item(hidden_items, item).hidden
  /\ outcome' = NONE
  /\ UNCHANGED << item_preferences, custom_brands, custom_items, fileVars,
                  grocery_list, uploadVars, envVars, probe >>

(* The restore button of a row under "Restore Hidden Items": there is one  *)
(* row for each hidden item.                                               *)
RestoreItem(item) ==
  /\ item \in hidden_items
  /\ hidden_items' = restore_item(hidden_items, item).hidden
  /\ HIDDEN_ITEMS_FILE' = save_file(HIDDEN_ITEMS_FILE, hidden_items')
  /\ outcome' = NONE
  /\ UNCHANGED << item_preferences, custom_brands, custom_items, PREFS_FILE,
                  CUSTOM_BRANDS_FILE, CUSTOM_ITEMS_FILE, grocery_list,
                  uploadVars, envVars, probe >>

(* The backups and scans used with the item handlers. *)
HiddenOnlyBackup ==
  Payload("object",
    NoSection(EmptyDict),
    NoSection(EmptyDict),
    Section({"Dragon Fruit"}),
    NoSection(<< >>))

ItemBackupFiles == { FullBackup, HiddenOnlyBackup, BadHiddenBackup }

CollidingScan ==
  Payload("object",
    NoSection(EmptyDict),
    NoSection(EmptyDict),
    NoSection({}),
    Section(<< [category |-> "Dairy",
                items |-> << [item |-> "Whole Milk", unit |-> "gal"] >>] >>))

ItemScanTexts == { GoodScan, CollidingScan, BadItemsScan }

NextItems ==
  \/ \E category \in CategoryPool, new_item_name \in NamePool,
        new_item_unit \in NewUnitPool :
       AddCustomItem(category, new_item_name, new_item_unit)
  \/ \E category \in CategoryPool, item \in RemovePool :
       RemoveItem(category, item)
  \/ \E item \in hidden_items : RestoreItem(item)
  \/ \E file \in ItemBackupFiles : UploadBackup(file)
  \/ RemoveUpload
  \/ ClearUpload
  \/ RerunImport
  \/ \E scanned \in ItemScanTexts : ScanImport(scanned)

SpecItems == Init /\ [][NextItems]_vars

(* The items of a category in a custom_items mapping, << >> when the       *)
(* mapping lacks the category.                                             *)
ItemsOfCategory(cats, category) ==
  IF CategoryIndex(cats, category) = 0 THEN << >>
  ELSE cats[CategoryIndex(cats, category)].items

(* The item names of a custom_items mapping. *)
CustomNames(cats) ==
  UNION { { cats[k].items[j].item : j \in DOMAIN cats[k].items } :
          k \in DOMAIN cats }

(* The categories of a custom_items mapping. *)
CustomCategories(cats) ==
  { cats[k].category : k \in DOMAIN cats }

(* C14: a scan import whose custom_items entries all name MASTER_LIST      *)
(* items leaves custom_items as it was, and no scan import gives           *)
(* custom_items an entry named like a MASTER_LIST item.                    *)
C14_Original ==
  [][ \A scanned \in ItemScanTexts :
        ( /\ ImportsScan(scanned)
          /\ outcome' = "imported"
          /\ scanned.custom_items.present ) =>
          /\ CustomNames(scanned.custom_items.val) \subseteq master_items =>
               custom_items' = custom_items
          /\ (CustomNames(custom_items') \cap master_items)
               \subseteq CustomNames(custom_items)
    ]_vars

(* C16: every hidden name is an item of some MASTER_LIST category and is   *)
(* the name of no custom item.                                             *)
C16_Original ==
  \A name \in hidden_items :
    /\ name \in master_items
    /\ name \notin CustomNames(custom_items)

(* C17: where a custom item of a category is named like a MASTER_LIST item *)
(* of that category, the merged view of the category carries the           *)
(* MASTER_LIST unit for it.                                                *)
C17_Original ==
  \A category \in CustomCategories(custom_items) \cap master_categories :
    LET base == MASTER_LIST[CHOOSE c \in DOMAIN MASTER_LIST :
                              MASTER_LIST[c].category = category].items
        custom == ItemsOfCategory(custom_items, category)
    IN  \A j \in DOMAIN custom :
          HasItem(base, custom[j].item) =>
            UnitOf(merged_items(category), custom[j].item)
              = UnitOf(base, custom[j].item)

(* The step is the remove button on a custom item of the category. *)
DeletesCustomItem(category, item) ==
  /\ custom_items' # custom_items
  /\ is_custom(category, item)
  /\ RemoveItem(category, item)

(* C18: deleting a custom item takes exactly that entry out of its         *)
(* category, which keeps its other entries in their order; the category    *)
(* key goes with its last entry, so it is never left with no entries; the  *)
(* other categories, in their order, and their items stay as they were.    *)
C18_DeleteCustomItem ==
  [][ \A category \in CategoryPool, item \in RemovePool :
        DeletesCustomItem(category, item) =>
          LET before == ItemsOfCategory(custom_items, category)
              after == ItemsOfCategory(custom_items', category)
              others(cats) == SelectSeq(cats, LAMBDA e : e.category # category)
          IN  /\ after = SelectSeq(before, LAMBDA e : e.item # item)
              /\ Len(after) = Len(before) - 1
              /\ (category \in CustomCategories(custom_items')) <=> (after # << >>)
              /\ others(custom_items') = others(custom_items)
              /\ UNCHANGED << hidden_items, HIDDEN_ITEMS_FILE >>
              /\ CUSTOM_ITEMS_FILE'.data = custom_items'
    ]_vars

(* The only custom item was deleted: no category is left, and the file     *)
(* holds the empty mapping.                                                *)
C18_Witness ==
  /\ custom_items = << >>
  /\ CUSTOM_ITEMS_FILE = [state |-> "ok", data |-> << >>]
  /\ hidden_items = {}
  /\ HIDDEN_ITEMS_FILE.state = "missing"
  /\ uploaded = NoUpload
  /\ outcome = NONE

(***************************************************************************)
(* The two statements on hidden_items by themselves, applied to any item   *)
(* and any set: hidden_items.add(item) and hidden_items.remove(item).  The *)
(* handlers reach them for a visible item and for a hidden item only.      *)
(***************************************************************************)
HiddenPool == {"Apples", "Bananas", "Whole Milk", "Eggs (Large)"}

IdleHidden ==
  [pc |-> "idle", item_name |-> NONE, before |-> {}, prior |-> << >>,
   raised |-> NONE]

InitHidden ==
  /\ IS_CLOUD = FALSE
  /\ disk_writable = TRUE
  /\ disk_full = FALSE
  /\ PREFS_FILE = MissingFile(EmptyDict)
  /\ CUSTOM_BRANDS_FILE = MissingFile(EmptyDict)
  /\ HIDDEN_ITEMS_FILE = MissingFile({})
  /\ CUSTOM_ITEMS_FILE = MissingFile(<< >>)
  /\ item_preferences = EmptyDict
  /\ custom_brands = EmptyDict
  /\ hidden_items \in SUBSET HiddenPool
  /\ custom_items = << >>
  /\ grocery_list = << >>
  /\ import_applied = FALSE
  /\ uploaded = NoUpload
  /\ outcome = NONE
  /\ probe = IdleHidden

(* hidden_items.add(item); save_hidden_items(hidden_items). *)
CallHide(item) ==
  /\ hidden_items' = hide_item(hidden_items, item)
  /\ HIDDEN_ITEMS_FILE' = save_file(HIDDEN_ITEMS_FILE, hidden_items')
  /\ probe' = [pc |-> "hidden", item_name |-> item, before |-> hidden_items,
               prior |-> << >>, raised |-> NONE]
  /\ UNCHANGED << item_preferences, custom_brands, custom_items, PREFS_FILE,
                  CUSTOM_BRANDS_FILE, CUSTOM_ITEMS_FILE, grocery_list,
                  uploadVars, envVars, outcome >>

(* hidden_items.remove(item); save_hidden_items(hidden_items): nothing is  *)
(* saved when remove raises.  prior holds the set before the hide when the *)
(* call follows a hide of the same item at once, and is empty otherwise.   *)
CallRestore(item) ==
  LET restored == restore_item(hidden_items, item)
  IN  /\ hidden_items' = restored.hidden
      /\ HIDDEN_ITEMS_FILE' =
           IF restored.raised = NONE
           THEN save_file(HIDDEN_ITEMS_FILE, hidden_items')
           ELSE HIDDEN_ITEMS_FILE
      /\ probe' = [pc |-> "restored", item_name |-> item,
                   before |-> hidden_items,
                   prior |-> IF probe.pc = "hidden" /\ probe.item_name = item
                             THEN << probe.before >> ELSE << >>,
                   raised |-> restored.raised]
      /\ UNCHANGED << item_preferences, custom_brands, custom_items,
                      PREFS_FILE, CUSTOM_BRANDS_FILE, CUSTOM_ITEMS_FILE,
                      grocery_list, uploadVars, envVars, outcome >>

NextHidden ==
  \/ \E item \in HiddenPool : CallHide(item)
  \/ \E item \in HiddenPool : CallRestore(item)

SpecHidden == InitHidden /\ [][NextHidden]_vars

delete_preference(prefs, item) ==
  IF item \in DOMAIN prefs
  THEN [raised |-> NONE, prefs |-> DictDel(prefs, item)]
  ELSE [raised |-> "KeyError", prefs |-> prefs]

SavedPool ==
  { [unit |-> "lb", brand |-> ""], [unit |-> "dozen", brand |-> "Cabot"] }

IdleDelete ==
  [pc |-> "idle", item_name |-> NONE, before |-> EmptyDict,
   brands_before |-> EmptyDict, raised |-> NONE]

InitDelete ==
  /\ IS_CLOUD = FALSE
  /\ disk_writable = TRUE
  /\ disk_full = FALSE
  /\ PREFS_FILE = MissingFile(EmptyDict)
  /\ CUSTOM_BRANDS_FILE = MissingFile(EmptyDict)
  /\ HIDDEN_ITEMS_FILE = MissingFile({})
  /\ CUSTOM_ITEMS_FILE = MissingFile(<< >>)
  /\ \E saved \in SUBSET ItemPool : item_preferences \in [saved -> SavedPool]
  /\ custom_brands \in { EmptyDict, [g \in {"cheese"} |-> << "NewBrand" >>] }
  /\ hidden_items = {}
  /\ custom_items = << >>
  /\ grocery_list = << >>
  /\ import_applied = FALSE
  /\ uploaded = NoUpload
  /\ outcome = NONE
  /\ probe = IdleDelete

(* del item_preferences[item]; save_preferences(item_preferences): nothing *)
(* is saved when del raises.                                               *)
CallDeletePreference(item) ==
  LET deleted == delete_preference(item_preferences, item)
  IN  /\ item_preferences' = deleted.prefs
      /\ PREFS_FILE' =
           IF deleted.raised = NONE
           THEN save_file(PREFS_FILE, item_preferences')
           ELSE PREFS_FILE
      /\ probe' = [pc |-> "deleted", item_name |-> item,
                   before |-> item_preferences,
                   brands_before |-> custom_brands, raised |-> deleted.raised]
      /\ UNCHANGED << custom_brands, hidden_items, custom_items,
                      CUSTOM_BRANDS_FILE, HIDDEN_ITEMS_FILE, CUSTOM_ITEMS_FILE,
                      grocery_list, uploadVars, envVars, outcome >>

NextDelete == \E item \in ItemPool : CallDeletePreference(item)

SpecDelete == InitDelete /\ [][NextDelete]_vars

MaxCart == 2

MaxQty == 2

(* items_in_cart holds the item. *)
in_cart(item) ==
  \E k \in DOMAIN grocery_list : grocery_list[k].item = item

(* The master list shows the add button of an item: the item is visible    *)
(* and not in the cart; an item in the cart is shown as a green note.      *)
CanAddToCart(category, item) ==
  /\ IsVisible(category, item)
  /\ ~in_cart(item)

(* The entry the add button of a master list item appends: the saved brand *)
(* and unit, "" and get_default_unit(item) for what is not saved.          *)
master_entry(category, item) ==
  LET saved == item \in DOMAIN item_preferences
      saved_brand == IF saved THEN Get(item_preferences[item].brand, "") ELSE ""
      saved_unit == IF saved
                    THEN Get(item_preferences[item].unit, get_default_unit(item))
                    ELSE get_default_unit(item)
  IN  [item |-> item, qty |-> 1, unit |-> saved_unit, brand |-> saved_brand]

(* str.strip() on the names typed in the form. *)
strip(text) ==
  CASE text = "  " -> ""
    [] text = " Durian " -> "Durian"
    [] OTHER -> text

decrement_qty_unguarded(list, i) ==
  [list EXCEPT ![i].qty = list[i].qty - 1]

(* The minus button of the i-th entry. *)
decrement_qty(list, i) ==
  IF list[i].qty > 1 THEN [list EXCEPT ![i].qty = list[i].qty - 1] ELSE list

(* The plus button of the i-th entry. *)
increment_qty(list, i) ==
  [list EXCEPT ![i].qty = list[i].qty + 1]

get_item_category_custom_first(item_name) ==
  IF FirstCategoryWith(custom_items, item_name) # 0
  THEN custom_items[FirstCategoryWith(custom_items, item_name)].category
  ELSE IF MasterCategoryOf(item_name) # 0
       THEN MASTER_LIST[MasterCategoryOf(item_name)].category
       ELSE "Other"

(* get_item_category: MASTER_LIST first, then custom_items, then "Other". *)
get_item_category(item_name) ==
  IF MasterCategoryOf(item_name) # 0
  THEN MASTER_LIST[MasterCategoryOf(item_name)].category
  ELSE IF FirstCategoryWith(custom_items, item_name) # 0
       THEN custom_items[FirstCategoryWith(custom_items, item_name)].category
       ELSE "Other"

(* items_by_category of the export: the entries of the cart from the k-th  *)
(* on, each appended to the list of its category, a new category last.     *)
RECURSIVE group_by_category(_, _, _)
group_by_category(groups, list, k) ==
  IF k > Len(list) THEN groups
  ELSE LET cat == get_item_category(list[k].item)
           g == CategoryIndex(groups, cat)
       IN  group_by_category(
             IF g = 0
             THEN Append(groups, [category |-> cat, items |-> << list[k] >>])
             ELSE [groups EXCEPT ![g].items = Append(groups[g].items, list[k])],
             list, k + 1)

items_by_category == group_by_category(<< >>, grocery_list, 1)

(* What the user picks and types. *)
CartItemPool == {"Apples", "Bananas", "Whole Milk", "Dragon Fruit"}

TypedPool == {"Apples", " Durian ", "  "}

QtyPool == {1, 2}

TypedUnitPool == {"lb"}

cartFrame ==
  << sessionVars, fileVars, uploadVars, envVars, outcome, probe >>

(* The add button of a master list item. *)
AddToCart(category, item) ==
  /\ CanAddToCart(category, item)
  /\ Len(grocery_list) < MaxCart
  /\ grocery_list' = Append(grocery_list, master_entry(category, item))
  /\ UNCHANGED cartFrame

(* "Add" of the "Add custom item" form: a blank name adds nothing. *)
AddCustomToCart(new_item, new_qty, new_unit) ==
  /\ new_qty >= 1
  /\ InList(new_unit, UNITS)
  /\ Len(grocery_list) < MaxCart
  /\ grocery_list' =
       IF strip(new_item) # ""
       THEN Append(grocery_list, [item |-> strip(new_item), qty |-> new_qty,
                                  unit |-> new_unit, brand |-> ""])
       ELSE grocery_list
  /\ UNCHANGED cartFrame

DecrementQty(i) ==
  /\ i \in DOMAIN grocery_list
  /\ grocery_list' = decrement_qty(grocery_list, i)
  /\ UNCHANGED cartFrame

IncrementQty(i) ==
  /\ i \in DOMAIN grocery_list
  /\ grocery_list[i].qty < MaxQty
  /\ grocery_list' = increment_qty(grocery_list, i)
  /\ UNCHANGED cartFrame

(* The remove button of the i-th entry: grocery_list.pop(i). *)
RemoveEntry(i) ==
  /\ i \in DOMAIN grocery_list
  /\ grocery_list' = WithoutIndex(grocery_list, i)
  /\ UNCHANGED cartFrame

(* "Clear List" of the shopping list tab, shown for a cart with entries. *)
ClearList ==
  /\ grocery_list # << >>
  /\ grocery_list' = << >>
  /\ UNCHANGED cartFrame

(* "Clear Cart" of the master list tab. *)
ClearCart ==
  /\ grocery_list' = << >>
  /\ UNCHANGED cartFrame

(* The documents a session starts from. *)
SavedPreferences ==
  { EmptyDict,
    [i \in {"Whole Milk", "Apples"} |->
       IF i = "Whole Milk" THEN [unit |-> "gallon", brand |-> "Fairlife"]
       ELSE [unit |-> NOKEY, brand |-> "Gala"]],
    [i \in {"Dragon Fruit"} |-> [unit |-> "each", brand |-> "Local"]] }

SavedCustomItems ==
  { << >>,
    << [category |-> "Dairy",
        items |-> << [item |-> "Dragon Fruit", unit |-> "jar"] >>] >>,
    << [category |-> "Produce - Fruits",
        items |-> << [item |-> "Whole Milk", unit |-> "each"] >>],
       [category |-> "Garden",
        items |-> << [item |-> "Durian", unit |-> "each"] >>],
       [category |-> "Dairy",
        items |-> << [item |-> "Durian", unit |-> "lb"] >>] >> }

SavedHiddenItems == { {}, {"Bananas"} }

StoredOr(values, empty) ==
  { MissingFile(empty) } \cup { [state |-> "ok", data |-> v] : v \in values }

InitCart ==
  /\ IS_CLOUD = FALSE
  /\ disk_writable = TRUE
  /\ disk_full = FALSE
  /\ PREFS_FILE \in StoredOr(SavedPreferences \ {EmptyDict}, EmptyDict)
  /\ CUSTOM_BRANDS_FILE = MissingFile(EmptyDict)
  /\ HIDDEN_ITEMS_FILE \in StoredOr(SavedHiddenItems \ {{}}, {})
  /\ CUSTOM_ITEMS_FILE \in StoredOr(SavedCustomItems \ {<< >>}, << >>)
  /\ item_preferences = load_dict(PREFS_FILE)
  /\ custom_brands = load_dict(CUSTOM_BRANDS_FILE)
  /\ hidden_items = load_hidden_items(HIDDEN_ITEMS_FILE)
  /\ custom_items = load_custom_items(CUSTOM_ITEMS_FILE)
  /\ grocery_list = << >>
  /\ import_applied = FALSE
  /\ uploaded = NoUpload
  /\ outcome = NONE
  /\ probe = IdleProbe

NextCart ==
  \/ \E category \in CategoryPool, item \in CartItemPool :
       AddToCart(category, item)
  \/ \E new_item \in TypedPool, new_qty \in QtyPool, new_unit \in TypedUnitPool :
       AddCustomToCart(new_item, new_qty, new_unit)
  \/ \E i \in DOMAIN grocery_list : DecrementQty(i)
  \/ \E i \in DOMAIN grocery_list : IncrementQty(i)
  \/ \E i \in DOMAIN grocery_list : RemoveEntry(i)
  \/ ClearList
  \/ ClearCart

SpecCart == InitCart /\ [][NextCart]_vars

(* The category is that of the first entry of an ordered category -> items *)
(* mapping that holds the name.                                            *)
FirstHolding(cats, item_name, category) ==
  \E c \in DOMAIN cats :
    /\ cats[c].category = category
    /\ HasItem(cats[c].items, item_name)
    /\ \A h \in 1..(c - 1) : ~HasItem(cats[h].items, item_name)

(* C22: every cart entry is grouped under the first MASTER_LIST category   *)
(* that holds its name; when none does, under the first custom_items       *)
(* category that holds it; and under "Other" when neither holds it.  A     *)
(* custom item named like a catalog item of another category goes under    *)
(* the catalog category.                                                   *)
C22_CategoryResolution ==
  LET groups == items_by_category
  IN  /\ \A k \in DOMAIN grocery_list :
           \E g \in DOMAIN groups : InList(grocery_list[k], groups[g].items)
      /\ \A g \in DOMAIN groups :
           \A k \in DOMAIN groups[g].items :
             LET name == groups[g].items[k].item
                 cat == groups[g].category
             IN  /\ cat = get_item_category(name)
                 /\ IF name \in master_items
                    THEN FirstHolding(MASTER_LIST, name, cat)
                    ELSE IF name \in CustomNames(custom_items)
                         THEN FirstHolding(custom_items, name, cat)
                         ELSE cat = "Other"

(* A cart with "Whole Milk", which is also a custom item of "Produce -     *)
(* Fruits", grouped under "Dairy", and with "Durian", a custom item of two *)
(* categories, grouped under the first of them.                            *)
C22_Witness ==
  /\ FirstCategoryWith(custom_items, "Whole Milk") # 0
  /\ custom_items[FirstCategoryWith(custom_items, "Whole Milk")].category
       = "Produce - Fruits"
  /\ \E g, h \in DOMAIN items_by_category :
       /\ items_by_category[g].category = "Dairy"
       /\ HasItem(items_by_category[g].items, "Whole Milk")
       /\ items_by_category[h].category = "Garden"
       /\ HasItem(items_by_category[h].items, "Durian")

(* A step of one of the two add handlers with something to add. *)
AddsToCart ==
  \/ \E category \in CategoryPool, item \in CartItemPool :
       AddToCart(category, item)
  \/ \E new_item \in TypedPool, new_qty \in QtyPool, new_unit \in TypedUnitPool :
       strip(new_item) # "" /\ AddCustomToCart(new_item, new_qty, new_unit)

AppendsOneEntry ==
  /\ Len(grocery_list') = Len(grocery_list) + 1
  /\ SubSeq(grocery_list', 1, Len(grocery_list)) = grocery_list

(* C23: every add, from the master list or from the form, appends one      *)
(* entry at the end of the cart and leaves the entries there as they were, *)
(* and an item can be added again while an entry of it is in the cart:     *)
(* the master list offers the add button of every visible item.            *)
C23_Original ==
  /\ [][AddsToCart => AppendsOneEntry]_vars
  /\ [](\A category \in CategoryPool, item \in CartItemPool :
          IsVisible(category, item) => CanAddToCart(category, item))

(* A step that changes the cart appends one entry of quantity 1 or more,   *)
(* or adds 1 to the quantity of one entry, or takes 1 from a quantity      *)
(* above 1, or deletes one entry or all of them.                           *)
CartStep ==
  grocery_list' # grocery_list =>
    \/ /\ AppendsOneEntry
       /\ grocery_list'[Len(grocery_list')].qty >= 1
    \/ /\ Len(grocery_list') = Len(grocery_list)
       /\ \E i \in DOMAIN grocery_list :
            /\ \A k \in DOMAIN grocery_list \ {i} :
                 grocery_list'[k] = grocery_list[k]
            /\ grocery_list'[i].item = grocery_list[i].item
            /\ grocery_list'[i].unit = grocery_list[i].unit
            /\ grocery_list'[i].brand = grocery_list[i].brand
            /\ \/ grocery_list'[i].qty = grocery_list[i].qty + 1
               \/ /\ grocery_list[i].qty > 1
                  /\ grocery_list'[i].qty = grocery_list[i].qty - 1
    \/ \E i \in DOMAIN grocery_list :
         grocery_list' = WithoutIndex(grocery_list, i)
    \/ grocery_list' = << >>

(* C24: in every reachable state the quantity of every cart entry is 1 or  *)
(* more, and the cart changes only by the steps that keep it so.           *)
C24_QuantityAtLeastOne ==
  /\ [](\A k \in DOMAIN grocery_list : grocery_list[k].qty >= 1)
  /\ [][CartStep]_vars

(* A master list entry, added with quantity 1, that the plus button took   *)
(* to 2, next to a typed entry of quantity 1.                              *)
C24_Witness ==
  /\ Len(grocery_list) = 2
  /\ grocery_list[1] = [item |-> "Whole Milk", qty |-> 2, unit |-> "half gallon",
                        brand |-> ""]
  /\ grocery_list[2] = [item |-> "Durian", qty |-> 1, unit |-> "lb",
                        brand |-> ""]

(* The unit the master list shows for an item of a category. *)
ShownUnit(category, item) ==
  UnitOf(merged_items(category), item)

(* C30: the add button of a master list item appends an entry of quantity  *)
(* 1 with the saved unit and brand when the item has a saved preference,   *)
(* and otherwise with brand "" and the item's default unit: the            *)
(* CUSTOM_UNITS default, else the MASTER_LIST unit, else for a custom item *)
(* the unit custom_items holds for it, which the list shows.               *)
C30_Original ==
  [][\A category \in CategoryPool, item \in CartItemPool :
       AddToCart(category, item) =>
         LET entry == grocery_list'[Len(grocery_list')]
             saved == item \in DOMAIN item_preferences
         IN  /\ entry.item = item
             /\ entry.qty = 1
             /\ entry.brand =
                  IF saved /\ item_preferences[item].brand # NOKEY
                  THEN item_preferences[item].brand ELSE ""
             /\ entry.unit =
                  IF saved /\ item_preferences[item].unit # NOKEY
                  THEN item_preferences[item].unit
                  ELSE IF HasCustomUnits(item)
                       THEN CustomUnitsOf(item).units[
                              CustomUnitsOf(item).default_idx + 1]
                       ELSE IF item \in master_items
                            THEN UnitOf(MASTER_LIST[MasterCategoryOf(item)].items,
                                        item)
                            ELSE ShownUnit(category, item)]_vars

(***************************************************************************)
(* Persistence: sessions that start from documents that are missing,       *)
(* stored or unreadable, locally or in the cloud, on a disk where saving   *)
(* succeeds, cannot open the document, or fails while writing it.          *)
(***************************************************************************)
StoredDocuments ==
  [prefs |-> [state |-> "ok",
              data |-> [i \in {"Cheddar Cheese"} |->
                          [unit |-> "lb", brand |-> "Cabot"]]],
   brands |-> [state |-> "ok",
               data |-> [g \in {"cheese"} |-> << "NewBrand" >>]],
   hidden |-> [state |-> "ok", data |-> {"Apples"}],
   items |-> [state |-> "ok",
              data |-> << [category |-> "Dairy",
                           items |-> << [item |-> "Dragon Fruit",
                                         unit |-> "jar"] >>] >>]]

NoDocuments ==
  [prefs |-> MissingFile(EmptyDict), brands |-> MissingFile(EmptyDict),
   hidden |-> MissingFile({}), items |-> MissingFile(<< >>)]

UnreadableDocuments ==
  [prefs |-> [state |-> "corrupt", data |-> EmptyDict],
   brands |-> StoredDocuments.brands,
   hidden |-> [state |-> "corrupt", data |-> {}],
   items |-> MissingFile(<< >>)]

StartDocuments == { NoDocuments, StoredDocuments, UnreadableDocuments }

InitStore ==
  /\ \E env \in { << FALSE, TRUE, FALSE >>, << TRUE, TRUE, FALSE >>,
                  << FALSE, FALSE, FALSE >>, << FALSE, TRUE, TRUE >> } :
       /\ IS_CLOUD = env[1]
       /\ disk_writable = env[2]
       /\ disk_full = env[3]
  /\ \E docs \in StartDocuments :
       /\ PREFS_FILE = docs.prefs
       /\ CUSTOM_BRANDS_FILE = docs.brands
       /\ HIDDEN_ITEMS_FILE = docs.hidden
       /\ CUSTOM_ITEMS_FILE = docs.items
  /\ item_preferences = load_dict(PREFS_FILE)
  /\ custom_brands = load_dict(CUSTOM_BRANDS_FILE)
  /\ hidden_items = load_hidden_items(HIDDEN_ITEMS_FILE)
  /\ custom_items = load_custom_items(CUSTOM_ITEMS_FILE)
  /\ grocery_list = << >>
  /\ import_applied = FALSE
  /\ uploaded = NoUpload
  /\ outcome = NONE
  /\ probe = IdleProbe

StoreBrandPool == {"", "NewBrand"}

StoreUnitPool == {"lb", "block"}

StoreRemovePool == {"Apples", "Dragon Fruit"}

NextStore ==
  \/ \E new_unit \in StoreUnitPool, new_brand \in StoreBrandPool :
       SavePreferences("Cheddar Cheese", new_unit, new_brand)
  \/ \E new_unit \in StoreUnitPool :
       SelectPreferenceUnit("Cheddar Cheese", new_unit)
  \/ \E selected_brand \in StoreBrandPool :
       SelectPreferenceBrand("Cheddar Cheese", selected_brand)
  \/ \E item \in DOMAIN item_preferences : RemovePreference(item)
  \/ \E group \in DOMAIN custom_brands :
       \E k \in DOMAIN custom_brands[group] :
         DeleteCustomBrand(group, custom_brands[group][k])
  \/ AddCustomItem("Dairy", "Dragon Fruit", "jar")
  \/ \E category \in CategoryPool, item \in StoreRemovePool :
       RemoveItem(category, item)
  \/ \E item \in hidden_items : RestoreItem(item)
  \/ \E file \in { FullBackup, BadHiddenBackup } : UploadBackup(file)
  \/ RemoveUpload
  \/ ClearUpload
  \/ RerunImport
  \/ ScanImport(GoodScan)

SpecStore == InitStore /\ [][NextStore]_vars

(* Persistence is enabled and writes succeed. *)
WritesSucceed ==
  ~IS_CLOUD /\ disk_writable /\ ~disk_full

(* The document holds the structure: it stores it, or there is no document *)
(* and the structure is empty.                                             *)
Holds(file, structure, empty) ==
  \/ file.state = "ok" /\ file.data = structure
  \/ file.state = "missing" /\ structure = empty

C26_Original ==
  /\ [](/\ PREFS_FILE.state # "ok" \/ IS_CLOUD =>
             load_dict(PREFS_FILE) = EmptyDict
        /\ CUSTOM_BRANDS_FILE.state # "ok" \/ IS_CLOUD =>
             load_dict(CUSTOM_BRANDS_FILE) = EmptyDict
        /\ HIDDEN_ITEMS_FILE.state # "ok" \/ IS_CLOUD =>
             load_hidden_items(HIDDEN_ITEMS_FILE) = {}
        /\ CUSTOM_ITEMS_FILE.state # "ok" \/ IS_CLOUD =>
             load_custom_items(CUSTOM_ITEMS_FILE) = << >>)
  /\ [][IS_CLOUD \/ ~disk_writable \/ disk_full => UNCHANGED fileVars]_vars

(***************************************************************************)
(* The unit selector of the preferences tab as every run of the script     *)
(* renders it.  The selectbox opens on the stored unit when the option     *)
(* list holds it and on the default option otherwise, and what it shows is *)
(* compared with the stored unit and written back when the two differ.     *)
(***************************************************************************)
(* new_unit of a row nobody touches: unit_options[unit_idx]. *)
shown_unit(item, prefs) ==
  LET unit_options ==
        IF HasCustomUnits(item) THEN CustomUnitsOf(item).units ELSE UNITS
      default_idx ==
        IF HasCustomUnits(item) THEN CustomUnitsOf(item).default_idx ELSE 0
      current_unit ==
        Get(prefs.unit, IF HasCustomUnits(item)
                        THEN unit_options[default_idx + 1]
                        ELSE get_default_unit(item))
  IN  IF InList(current_unit, unit_options) THEN current_unit
      ELSE unit_options[default_idx + 1]

(* old_unit of the row. *)
old_unit(item, prefs) ==
  Get(prefs.unit, IF HasCustomUnits(item)
                  THEN CustomUnitsOf(item).units[
                         CustomUnitsOf(item).default_idx + 1]
                  ELSE get_default_unit(item))

(* item_preferences after the rows are rendered: `if new_unit != old_unit: *)
(* item_preferences[item]["unit"] = new_unit` for every row.               *)
render_preferences_tab(preferences_dict) ==
  [item \in DOMAIN preferences_dict |->
     IF /\ PreferenceCategory(item) # NONE
        /\ shown_unit(item, preferences_dict[item])
             # old_unit(item, preferences_dict[item])
     THEN [preferences_dict[item] EXCEPT
             !.unit = shown_unit(item, preferences_dict[item])]
     ELSE preferences_dict[item]]

(* The last run of the script rendered the rows of item_preferences as     *)
(* they are: the user can act on the page.  With the units of the other    *)
(* specifications every state they reach is rendered.                      *)
Rendered ==
  render_preferences_tab(item_preferences) = item_preferences

(* A run of the script that no handler takes part in: the one st.rerun()   *)
(* starts, or one started by a widget that changes none of the structures. *)
Rerun ==
  /\ uploaded = NoUpload \/ import_applied
  /\ item_preferences' = render_preferences_tab(item_preferences)
  /\ PREFS_FILE' =
       IF item_preferences' # item_preferences
       THEN save_file(PREFS_FILE, item_preferences')
       ELSE PREFS_FILE
  /\ UNCHANGED << custom_brands, hidden_items, custom_items, CUSTOM_BRANDS_FILE,
                  HIDDEN_ITEMS_FILE, CUSTOM_ITEMS_FILE, grocery_list, uploadVars,
                  envVars, outcome, probe >>

(* What the user picks, types and pastes. *)
UnitItemPool == {"Black Beans", "Cheddar Cheese", "Bananas"}

ShownUnitPool == {"can", "bunch", "block", "lb", "each"}

TypedBrandPool == {"", "Acme", "Goya"}

WedgeScan ==
  Payload("object",
    Section([i \in {"Cheddar Cheese"} |-> [unit |-> "wedge", brand |-> ""]]),
    NoSection(EmptyDict),
    NoSection({}),
    NoSection(<< >>))

(* The handlers that store a unit. *)
StoresUnit ==
  \/ \E item \in UnitItemPool, new_unit \in ShownUnitPool,
        new_brand \in TypedBrandPool :
       SavePreferences(item, new_unit, new_brand)
  \/ \E item \in UnitItemPool, new_unit \in ShownUnitPool :
       SelectPreferenceUnit(item, new_unit)
  \/ ScanImport(WedgeScan)

(* The user acts on a page that is rendered; a run of the script in        *)
(* between renders it.                                                     *)
NextUnits ==
  \/ /\ Rendered
     /\ \E item \in UnitItemPool, new_unit \in ShownUnitPool,
           new_brand \in TypedBrandPool :
          SavePreferences(item, new_unit, new_brand)
  \/ /\ Rendered
     /\ \E item \in UnitItemPool, new_unit \in ShownUnitPool :
          SelectPreferenceUnit(item, new_unit)
  \/ /\ Rendered
     /\ \E item \in UnitItemPool, selected_brand \in TypedBrandPool :
          SelectPreferenceBrand(item, selected_brand)
  \/ /\ Rendered
     /\ \E item \in UnitItemPool : RemovePreference(item)
  \/ /\ Rendered
     /\ \E group \in DOMAIN custom_brands :
          \E k \in DOMAIN custom_brands[group] :
            DeleteCustomBrand(group, custom_brands[group][k])
  \/ /\ Rendered
     /\ ScanImport(WedgeScan)
  \/ Rerun

SpecUnits == Init /\ [][NextUnits]_vars

(* C27: the unit of a saved preference changes only by Save Preferences,   *)
(* by the user picking another unit in the preferences tab, or by an       *)
(* import; a run that only renders the preferences tab leaves a stored     *)
(* unit that is not among the row's options as it is.                      *)
C27_Original ==
  [][\A item \in DOMAIN item_preferences \cap DOMAIN item_preferences' :
       item_preferences'[item].unit # item_preferences[item].unit =>
         Rendered /\ StoresUnit]_vars

(***************************************************************************)
(* Sessions in which the user picks a backup only while no import is       *)
(* marked as applied: the file the uploader holds while import_applied is  *)
(* set is then the file that was applied.                                  *)
(***************************************************************************)
NextUpload ==
  \/ \E item \in ItemPool, new_unit \in UnitPool, new_brand \in BrandPool :
       SavePreferences(item, new_unit, new_brand)
  \/ \E item \in ItemPool, new_unit \in UnitPool :
       SelectPreferenceUnit(item, new_unit)
  \/ \E item \in ItemPool : RemovePreference(item)
  \/ ~import_applied /\ \E file \in BackupFiles : UploadBackup(file)
  \/ RemoveUpload
  \/ ClearUpload
  \/ RerunImport

SpecUpload == Init /\ [][NextUpload]_vars

(* C28: an uploaded backup is applied once.  After it was applied no run   *)
(* applies it again, also not the run "Clear upload" starts while the      *)
(* uploader still holds the file: that run leaves the four structures and  *)
(* their documents as the user's later changes made them.                  *)
C28_Original ==
  [][ClearUpload => UNCHANGED << sessionVars, fileVars >>]_vars

(***************************************************************************)
(* "Backup & Restore Preferences": the export, and sessions that export,   *)
(* change the four structures and import.                                  *)
(***************************************************************************)
(* list(hidden_items): the elements of the set, each once, in some order. *)
RECURSIVE list_of(_)
list_of(items) ==
  IF items = {} THEN << >>
  ELSE LET x == CHOOSE y \in items : TRUE
       IN  << x >> \o list_of(items \ {x})

export_all_data_no_hidden(s) ==
  [preferences |-> s.item_preferences, custom_brands |-> s.custom_brands,
   hidden_items |-> << >>, custom_items |-> s.custom_items]

(* all_data, the dictionary the download button serialises. *)
export_all_data(s) ==
  [preferences |-> s.item_preferences, custom_brands |-> s.custom_brands,
   hidden_items |-> list_of(s.hidden_items), custom_items |-> s.custom_items]

(* The downloaded document as the import block reads it: json.loads of     *)
(* json.dumps(all_data), with set(imported["hidden_items"]) for the array. *)
exported_file(all_data) ==
  Payload("object", Section(all_data.preferences),
          Section(all_data.custom_brands),
          Section(Elements(all_data.hidden_items)),
          Section(all_data.custom_items))

(* The user downloads the backup: the probe keeps the document and the     *)
(* four structures of the run that offered it.                             *)
ExportPreferences ==
  /\ probe' = [pc |-> "exported", all_data |-> export_all_data(Session),
               item_preferences |-> item_preferences,
               custom_brands |-> custom_brands,
               hidden_items |-> hidden_items,
               custom_items |-> custom_items]
  /\ probe' # probe
  /\ outcome' = NONE
  /\ UNCHANGED << sessionVars, fileVars, uploadVars, grocery_list, envVars >>

(* The user picks the downloaded backup in the uploader. *)
UploadExported ==
  /\ probe.pc = "exported"
  /\ UploadBackup(exported_file(probe.all_data))

BackupItemPool == {"Cheddar Cheese"}

BackupUnitPool == {"lb"}

BackupBrandPool == {"", "NewBrand"}

BackupHidePool == {"Apples", "Bananas"}

NextBackup ==
  \/ ExportPreferences
  \/ UploadExported
  \/ UploadBackup(BadHiddenBackup)
  \/ RemoveUpload
  \/ ClearUpload
  \/ RerunImport
  \/ \E item \in BackupItemPool, new_unit \in BackupUnitPool,
        new_brand \in BackupBrandPool :
       SavePreferences(item, new_unit, new_brand)
  \/ \E item \in BackupItemPool : RemovePreference(item)
  \/ \E group \in DOMAIN custom_brands :
       \E k \in DOMAIN custom_brands[group] :
         DeleteCustomBrand(group, custom_brands[group][k])
  \/ AddCustomItem("Dairy", "Dragon Fruit", "jar")
  \/ \E item \in BackupHidePool \cup {"Dragon Fruit"} :
       \E category \in {"Produce - Fruits", "Dairy"} :
         RemoveItem(category, item)
  \/ \E item \in hidden_items : RestoreItem(item)

SpecBackup == Init /\ [][NextBackup]_vars

(* The import block runs on the downloaded backup: the user picks it while *)
(* no import is marked as applied, or presses "Clear upload" while the     *)
(* uploader holds it.                                                      *)
ImportsExported ==
  /\ probe.pc = "exported"
  /\ \/ ~import_applied /\ UploadExported
     \/ ClearUpload /\ uploaded = exported_file(probe.all_data)

=============================================================================
